---- MODULE Spec2Model ----
(***************************************************************************)
(* Model of the reader3 normalisation pipeline (reader3.py: process_pdf,   *)
(* process_epub, save_to_pickle and the directory swap they perform) and   *)
(* of the per-book search index (semantic_search.py: ensure_book_index).   *)
(*                                                                         *)
(* Fault model.  A step of the code that the code itself guards with       *)
(* try/except, or that can raise inside the try/finally of a normaliser,   *)
(* may fail: page load, page geometry, text extraction, page render,       *)
(* annotation extraction, thumbnail rendering, outline extraction, any     *)
(* build step, and each os.rename of the commit except the restoring one.  *)
(* shutil.rmtree(..., ignore_errors=True) is taken to delete its target.   *)
(***************************************************************************)
EXTENDS Integers, Sequences, FiniteSets, TLC

(* ------------------------------ bounds -------------------------------- *)

\* largest page count of a PDF input
MaxPages == 2
\* largest number of spine items of an EPUB input
MaxSpine == 2

(* ---------------------------- file system ----------------------------- *)

\* the three directories a run touches: output_dir, output_dir + ".__old"
\* and the mkdtemp scratch directory
Paths == {"output_dir", "backup_dir", "tmp_dir"}

NoDir == [exists |-> FALSE, files |-> {}]

Dir(files) == [exists |-> TRUE, files |-> files]

\* a file is <<kind, index, generation>>; the generation says which run wrote
\* it ("prior": the earlier successful run, "stale": a leftover backup,
\* "new": the run in progress)
File(k, idx, gen) == <<k, idx, gen>>

PriorFiles ==
  {File("source", 0, "prior"), File("image", 1, "prior"),
   File("pkl", 0, "prior"), File("meta", 0, "prior"),
   File("index", 0, "prior")}

StaleFiles == {File("pkl", 0, "stale")}

\* os.rename(src, dst) of a directory, when it succeeds
os_rename(f, src, dst) == [f EXCEPT ![dst] = f[src], ![src] = NoDir]

\* shutil.rmtree(path, ignore_errors=True)
rmtree(f, path) == [f EXCEPT ![path] = NoDir]

\* a file written (created or overwritten) in directory path; makedirs
\* (exist_ok) creates the directory when it is missing
write_files(f, path, new) == [f EXCEPT ![path] = Dir(@.files \cup new)]

(* ----------------------------- data model ----------------------------- *)

\* the token f"page_{n}"
PageId(n) == <<"page", ToString(n)>>

ChapterContent(id, href, title, content, text, order) ==
  [id |-> id, href |-> href, title |-> title, content |-> content,
   text |-> text, order |-> order]

\* the empty string, strings being lists of their parts
EmptyStr == <<>>

RECURSIVE split_walk(_, _)
split_walk(value, cur) ==
  IF value = <<>> THEN <<cur>>
  ELSE IF Head(value) = "#" THEN <<cur>> \o split_walk(Tail(value), <<>>)
  ELSE split_walk(Tail(value), Append(cur, Head(value)))

\* value.split('#'): the list of the parts between the '#'
split_hash(value) == split_walk(value, <<>>)

\* '#' in value
has_hash(value) == \E k \in 1..Len(value) : value[k] = "#"

\* children are kept as parent pointers: parent is the position of the parent
\* entry in the pre-order list, 0 for a root entry
TOCEntry(title, href, file_href, anchor, parent) ==
  [title |-> title, href |-> href, file_href |-> file_href,
   anchor |-> anchor, parent |-> parent]

PDFPageData(page_num, width, height, rotation, annotations, has_images, word_count) ==
  [page_num |-> page_num, width |-> width, height |-> height,
   rotation |-> rotation, annotations |-> annotations,
   has_images |-> has_images, word_count |-> word_count]

PDFAnnotation(page, type, content, author, created) ==
  [page |-> page, type |-> type, content |-> content, author |-> author,
   created |-> created]

NoBook == [is_book |-> FALSE]

Book(spine, toc, images, is_pdf, page_data, total, has_toc, thumbs) ==
  [is_book |-> TRUE, spine |-> spine, toc |-> toc, images |-> images,
   is_pdf |-> is_pdf, pdf_page_data |-> page_data, pdf_total_pages |-> total,
   pdf_has_toc |-> has_toc, pdf_thumbnails_generated |-> thumbs]

\* d[k] = v on a dict
Put(d, k, v) == [x \in (DOMAIN d) \cup {k} |-> IF x = k THEN v ELSE d[x]]

EmptyDict == [x \in {} |-> 0]

(* ------------------------------- inputs ------------------------------- *)

\* what reading the first 8 bytes gives: a %PDF header, other bytes, or OSError
Headers == {"%PDF", "junk", "unreadable"}

\* doc.get_toc(): a list of (level, page) items, or the call raising
Outlines ==
  { <<>>, <<[level |-> 1, page |-> 2], [level |-> 2, page |-> 1]>> }

PdfInputs ==
  [header : Headers, openable : BOOLEAN, needs_pass : BOOLEAN,
   is_encrypted : BOOLEAN, pages : 0..MaxPages, first_page_ok : BOOLEAN,
   outline : Outlines, outline_raises : BOOLEAN]

NoPdf ==
  [header |-> "unreadable", openable |-> FALSE, needs_pass |-> FALSE,
   is_encrypted |-> FALSE, pages |-> 0, first_page_ok |-> FALSE,
   outline |-> <<>>, outline_raises |-> FALSE]

\* the steps of one page that can fail
FaultKinds == {"load", "rect", "text", "render", "annot", "thumb", "rotation"}

\* the failures injected into one page
PageFaultSets ==
  { {}, {"load"}, {"rect"}, {"text"}, {"render"}, {"annot"}, {"thumb"},
    {"rotation"}, {"text", "annot"} }

\* a word that holds a code point of the surrogate range 0xD800-0xDFFF, and
\* what sanitize_text makes of it
Surrogate == "U+D800"

Replacement == "U+FFFD"

\* page.get_text("text") as the list of its words
PageTexts == { <<>>, <<"w">>, <<Surrogate>> }

\* sanitize_text(value) on a string given as the list of its words
sanitize_text(value) ==
  [k \in 1..Len(value) |->
     IF value[k] = Surrogate THEN Replacement ELSE value[k]]

\* sanitize_toc_entries(entries), on the hrefs and anchors; the titles are
\* tokens made of entry numbers here
sanitize_toc_entries(entries) ==
  [k \in 1..Len(entries) |->
     [entries[k] EXCEPT !.href = sanitize_text(@),
                        !.file_href = sanitize_text(@),
                        !.anchor = sanitize_text(@)]]

\* sanitize_book_text_fields(book), on the strings the model keeps as lists of
\* parts: the TOC hrefs and anchors, the chapter hrefs and texts; ids, titles
\* and contents are tokens made of page and item numbers here
sanitize_book_text_fields(book_obj) ==
  [book_obj EXCEPT
     !.toc = sanitize_toc_entries(@),
     !.spine = [k \in 1..Len(@) |->
                  [@[k] EXCEPT !.href = sanitize_text(@),
                               !.text = sanitize_text(@)]]]

\* extract_pdf_annotations(page) on a page with one highlight: its content is
\* the text of the page under it
extract_pdf_annotations(page_idx, page_words) ==
  << PDFAnnotation(page_idx, <<"highlight">>, page_words, <<>>, <<>>) >>

(* --------------------------- validate_pdf ----------------------------- *)

Invalid(reason) == [valid |-> FALSE, error |-> reason]

\* validate_pdf with the encryption test ahead of the password test
validate_pdf_encrypted_first(f) ==
  IF f.header = "unreadable" THEN Invalid("Cannot read file")
  ELSE IF f.header # "%PDF" THEN Invalid("File is not a valid PDF (bad header magic bytes).")
  ELSE IF ~f.openable THEN Invalid("Cannot open PDF")
  ELSE IF f.is_encrypted THEN Invalid("PDF is encrypted.")
  ELSE IF f.needs_pass THEN Invalid("PDF is password-protected.")
  ELSE IF f.pages = 0 THEN Invalid("PDF has no pages.")
  ELSE IF ~f.first_page_ok THEN Invalid("PDF appears corrupted (cannot read first page)")
  ELSE [valid |-> TRUE, error |-> "None"]

validate_pdf(f) ==
  IF f.header = "unreadable" THEN Invalid("Cannot read file")
  ELSE IF f.header # "%PDF" THEN Invalid("File is not a valid PDF (bad header magic bytes).")
  ELSE IF ~f.openable THEN Invalid("Cannot open PDF")
  ELSE IF f.needs_pass THEN Invalid("PDF is password-protected.")
  ELSE IF f.is_encrypted THEN Invalid("PDF is encrypted.")
  ELSE IF f.pages = 0 THEN Invalid("PDF has no pages.")
  ELSE IF ~f.first_page_ok THEN Invalid("PDF appears corrupted (cannot read first page)")
  ELSE [valid |-> TRUE, error |-> "None"]

(* ------------------------- extract_pdf_outline ------------------------ *)

RECURSIVE pop_while_greater(_, _)
\* the loop popping only the entries of a greater level
pop_while_greater(stack, level) ==
  IF stack # <<>> /\ stack[Len(stack)][1] > level
  THEN pop_while_greater(SubSeq(stack, 1, Len(stack) - 1), level)
  ELSE stack

RECURSIVE PopStack(_, _)
\* while stack and stack[-1][0] >= level: stack.pop()
PopStack(stack, level) ==
  IF stack # <<>> /\ stack[Len(stack)][1] >= level
  THEN PopStack(SubSeq(stack, 1, Len(stack) - 1), level)
  ELSE stack

RECURSIVE outline_walk_zero_based(_, _, _, _)
\* the loop naming the entries after the 0-based page index
outline_walk_zero_based(items, k, stack, acc) ==
  IF k > Len(items) THEN acc
  ELSE LET item == items[k]
           page_idx == IF item.page - 1 > 0 THEN item.page - 1 ELSE 0
           st == PopStack(stack, item.level)
           parent == IF st # <<>> THEN st[Len(st)][2] ELSE 0
           entry == TOCEntry(<<"outline", k>>, PageId(page_idx),
                             PageId(page_idx), EmptyStr, parent)
       IN outline_walk_zero_based(items, k + 1, Append(st, <<item.level, k>>),
                                  Append(acc, entry))

RECURSIVE outline_walk(_, _, _, _)
\* the loop over the outline items; the stack holds <<level, owner>>, owner
\* being the entry whose children list is on the stack (0: the result list)
outline_walk(items, k, stack, acc) ==
  IF k > Len(items) THEN acc
  ELSE LET item == items[k]
           page_idx == IF item.page - 1 > 0 THEN item.page - 1 ELSE 0
           st == PopStack(stack, item.level)
           parent == IF st # <<>> THEN st[Len(st)][2] ELSE 0
           entry == TOCEntry(<<"outline", k>>, PageId(page_idx + 1),
                             PageId(page_idx + 1), EmptyStr, parent)
       IN outline_walk(items, k + 1, Append(st, <<item.level, k>>),
                       Append(acc, entry))

extract_pdf_outline(items) ==
  IF items = <<>> THEN <<>>
  ELSE outline_walk(items, 1, << <<0, 0>> >>, <<>>)

(* ------------------------ the per-page loop body ---------------------- *)

\* building straight into the destination
build_dir_is_output_dir == "output_dir"

\* the directory the normalisers build into (images_dir, thumbs_dir,
\* pdf_copy_path are all joined onto tmp_dir)
build_dir == "tmp_dir"

\* a failed page that is skipped rather than replaced
no_placeholder_page(page_idx, st, native_toc) == st

\* st holds the mutable locals of process_pdf:
\* spine_chapters, image_map, pdf_page_data, toc_structure, failed_pages, fs
_insert_placeholder_page(page_idx, st, native_toc) ==
  LET chapter_id == PageId(page_idx + 1)
      chapter_title == <<"Page", page_idx + 1>>
  IN [st EXCEPT
        !.toc_structure =
           IF ~native_toc
           THEN Append(@, TOCEntry(chapter_title, chapter_id, chapter_id, EmptyStr, 0))
           ELSE @,
        !.pdf_page_data =
           Put(@, page_idx, PDFPageData(page_idx, 0, 0, 0, <<>>, FALSE, 0)),
        !.spine_chapters =
           Append(@, ChapterContent(chapter_id, chapter_id, chapter_title,
                                    <<"error", page_idx + 1>>, <<>>, page_idx))]

\* failed_pages.append(i) followed by the placeholder
page_failed(page_idx, st, native_toc) ==
  _insert_placeholder_page(
     page_idx, [st EXCEPT !.failed_pages = Append(@, page_idx)], native_toc)

\* the tail of the loop body adding a per-page TOC entry whatever the outline
page_succeeded_always_listed(page_idx, st, native_toc, page_text, annotations) ==
  LET chapter_id == PageId(page_idx + 1)
      chapter_title == <<"Page", page_idx + 1>>
  IN [st EXCEPT
        !.pdf_page_data =
           Put(@, page_idx, PDFPageData(page_idx, 612, 792, 0, annotations,
                                        TRUE, Len(page_text))),
        !.toc_structure =
           Append(@, TOCEntry(chapter_title, chapter_id, chapter_id, EmptyStr, 0)),
        !.spine_chapters =
           Append(@, ChapterContent(chapter_id, chapter_id, chapter_title,
                                    <<"img", page_idx + 1>>, page_text, page_idx))]

\* the tail of the loop body: page data, per-page TOC entry, chapter
page_succeeded(page_idx, st, native_toc, page_text, annotations) ==
  LET chapter_id == PageId(page_idx + 1)
      chapter_title == <<"Page", page_idx + 1>>
  IN [st EXCEPT
        !.pdf_page_data =
           Put(@, page_idx, PDFPageData(page_idx, 612, 792, 0, annotations,
                                        TRUE, Len(page_text))),
        !.toc_structure =
           IF ~native_toc
           THEN Append(@, TOCEntry(chapter_title, chapter_id, chapter_id, EmptyStr, 0))
           ELSE @,
        !.spine_chapters =
           Append(@, ChapterContent(chapter_id, chapter_id, chapter_title,
                                    <<"img", page_idx + 1>>, page_text, page_idx))]

\* the loop body with a text-extraction failure treated like a render failure
process_page_text_fatal(page_idx, F, text, st, native_toc, thumbs) ==
  IF "load" \in F THEN page_failed(page_idx, st, native_toc)
  ELSE IF "rect" \in F THEN page_failed(page_idx, st, native_toc)
  ELSE IF "text" \in F THEN page_failed(page_idx, st, native_toc)
  ELSE IF "render" \in F THEN page_failed(page_idx, st, native_toc)
  ELSE
      LET st1 == [st EXCEPT
                    !.fs = write_files(@, build_dir,
                                       {File("image", page_idx + 1, "new")}),
                    !.image_map = @ \cup {<<PageId(page_idx + 1),
                                            <<"images", page_idx + 1>> >>}]
          annotations == IF "annot" \in F THEN <<>>
                         ELSE extract_pdf_annotations(page_idx, text)
      IN IF "rotation" \in F THEN page_failed(page_idx, st1, native_toc)
         ELSE page_succeeded(page_idx, st1, native_toc, text, annotations)

\* one iteration of "for i in range(total_pages)" on a page whose steps in F
\* fail and whose text is text
process_page(page_idx, F, text, st, native_toc, thumbs) ==
  IF "load" \in F THEN page_failed(page_idx, st, native_toc)
  ELSE IF "rect" \in F THEN page_failed(page_idx, st, native_toc)
  ELSE
    LET page_text == IF "text" \in F THEN <<>> ELSE text IN
    IF "render" \in F THEN page_failed(page_idx, st, native_toc)
    ELSE
      LET st1 == [st EXCEPT
                    !.fs = write_files(@, build_dir,
                                       {File("image", page_idx + 1, "new")}),
                    !.image_map = @ \cup {<<PageId(page_idx + 1),
                                            <<"images", page_idx + 1>> >>}]
          annotations == IF "annot" \in F THEN <<>>
                         ELSE extract_pdf_annotations(page_idx, text)
          st2 == IF thumbs /\ "thumb" \notin F
                 THEN [st1 EXCEPT
                         !.fs = write_files(@, build_dir,
                                            {File("thumb", page_idx + 1, "new")})]
                 ELSE st1
      IN IF "rotation" \in F THEN page_failed(page_idx, st2, native_toc)
         ELSE page_succeeded(page_idx, st2, native_toc, page_text, annotations)

\* raising as soon as one page failed
any_page_failed(failed, total) == Len(failed) > 0

\* "if len(failed_pages) == total_pages: raise ValueError"
all_pages_failed(failed, total) == Len(failed) = total

(* ------------------------------- EPUB --------------------------------- *)

\* what book.get_item_with_id(item_id) gives for a spine entry: an
\* ITEM_DOCUMENT, an item of another type whose name ends in .html, an item
\* that is no content document (an image, a stylesheet), or None
ItemKinds == {"document", "hash_document", "ext_html", "other", "missing"}

RECURSIVE SeqsUpTo(_, _)
SeqsUpTo(S, n) ==
  IF n = 0 THEN { <<>> }
  ELSE LET shorter == SeqsUpTo(S, n - 1)
       IN shorter \cup { Append(q, x) : q \in {r \in shorter : Len(r) = n - 1}, x \in S }

\* book.toc: a list of links, each an href with or without a "#anchor"
EpubTocs ==
  { <<>>, << <<"item", "1">> >>, << <<"item", "1", "#", Surrogate>> >> }

EpubInputs ==
  [readable : BOOLEAN, spine : SeqsUpTo(ItemKinds, MaxSpine),
   images : 0..1, toc : EpubTocs]

NoEpub == [readable |-> FALSE, spine |-> <<>>, images |-> 0, toc |-> <<>>]

\* item.get_name() of the k-th item; the name of a "hash_document" holds a '#'
ItemName(k, item_kind) ==
  IF item_kind = "hash_document" THEN <<"item", "#", ToString(k)>>
  ELSE <<"item", ToString(k)>>

is_content_document(item_kind) ==
  \/ item_kind = "document"
  \/ item_kind = "hash_document"
  \/ item_kind = "ext_html"

\* one entry per link of book.toc, the link's href being toc_list[k]
parse_toc_recursive(toc_list) ==
  [k \in 1..Len(toc_list) |->
     TOCEntry(<<"nav", k>>, toc_list[k], split_hash(toc_list[k])[1],
              IF has_hash(toc_list[k]) THEN split_hash(toc_list[k])[2]
              ELSE EmptyStr, 0)]

RECURSIVE fallback_walk(_, _)
\* one entry per content document of the manifest, in manifest order
fallback_walk(items, k) ==
  IF k > Len(items) THEN <<>>
  ELSE IF items[k] # "missing" /\ is_content_document(items[k])
       THEN <<TOCEntry(<<"title", k>>, ItemName(k, items[k]),
                       ItemName(k, items[k]), EmptyStr, 0)>>
            \o fallback_walk(items, k + 1)
       ELSE fallback_walk(items, k + 1)

get_fallback_toc(items) == fallback_walk(items, 1)

\* the order given to the chapter made from spine entry number idx (0-based)
\* when chapters is the list built so far
chapter_order(idx, chapters) == idx

\* the body of "for i, spine_item in enumerate(book.spine)"
epub_spine_item(idx, item_kind, chapters) ==
  IF item_kind = "missing" THEN chapters
  ELSE IF is_content_document(item_kind)
       THEN Append(chapters,
                   ChapterContent(<<"id", idx + 1>>, ItemName(idx + 1, item_kind),
                                  <<"Section", idx + 1>>, <<"html", idx + 1>>,
                                  <<"w">>, chapter_order(idx, chapters)))
       ELSE chapters

(* ---------------------- semantic_search: the index -------------------- *)

INDEX_VERSION == 1

\* largest number of chapters of a Book given to the index
MaxChapters == 1
\* the processed_at timestamps; only their being equal or not is read
Stamps == {1, 2}
\* number of writes of the index file in one behaviour
MaxClock == 2

STOPWORDS ==
  {"a", "an", "and", "are", "as", "at", "be", "but", "by", "for", "from",
   "has", "have", "he", "her", "his", "i", "in", "is", "it", "its", "me",
   "my", "not", "of", "on", "or", "our", "she", "that", "the", "their",
   "them", "there", "these", "they", "this", "to", "was", "were", "will",
   "with", "you", "your"}

\* a text is the sequence of its characters, each a string of length one
Uppers == {"T"}

AsciiLetters ==
  {"d", "e", "f", "g", "h", "i", "l", "n", "o", "s", "t", "x", "y"}

Digits == {"5"}

\* the characters TOKEN_RE matches: [A-Za-z0-9']
TokenChars == AsciiLetters \cup Uppers \cup Digits \cup {"'"}

RECURSIVE Str(_)
\* the Python string of a sequence of characters
Str(w) == IF w = <<>> THEN "" ELSE Head(w) \o Str(Tail(w))

\* str.lower() on one character
lower_char(c) == IF c = "T" THEN "t" ELSE c

lower(w) == [k \in 1..Len(w) |-> lower_char(w[k])]

RECURSIVE lstrip_quote(_)
lstrip_quote(w) ==
  IF w # <<>> /\ Head(w) = "'" THEN lstrip_quote(Tail(w)) ELSE w

RECURSIVE rstrip_quote(_)
rstrip_quote(w) ==
  IF w # <<>> /\ w[Len(w)] = "'"
  THEN rstrip_quote(SubSeq(w, 1, Len(w) - 1)) ELSE w

\* token.strip("'")
strip_quote(w) == rstrip_quote(lstrip_quote(w))

\* str.isdigit()
isdigit(w) == w # <<>> /\ \A k \in 1..Len(w) : w[k] \in Digits

\* str.endswith(suffix)
endswith(w, suffix) ==
  /\ Len(w) >= Len(suffix)
  /\ SubSeq(w, Len(w) - Len(suffix) + 1, Len(w)) = suffix

\* the suffixes of _normalize_token, in the order it tries them
Suffixes ==
  << <<"i", "n", "g">>, <<"e", "d", "l", "y">>, <<"e", "d">>,
     <<"l", "y">>, <<"e", "s">>, <<"s">> >>

RECURSIVE strip_first_matching(_, _)
\* the loop stopping at the first suffix the token ends with, long enough
\* or not
strip_first_matching(token, k) ==
  IF k > Len(Suffixes) THEN token
  ELSE IF endswith(token, Suffixes[k])
       THEN (IF Len(token) > Len(Suffixes[k]) + 2
             THEN SubSeq(token, 1, Len(token) - Len(Suffixes[k]))
             ELSE token)
  ELSE strip_first_matching(token, k + 1)

RECURSIVE strip_suffix(_, _)
\* the loop over the suffixes, from suffix number k on: the first suffix the
\* token ends with and is long enough for is cut off
strip_suffix(token, k) ==
  IF k > Len(Suffixes) THEN token
  ELSE IF endswith(token, Suffixes[k]) /\ Len(token) > Len(Suffixes[k]) + 2
       THEN SubSeq(token, 1, Len(token) - Len(Suffixes[k]))
  ELSE strip_suffix(token, k + 1)

\* _normalize_token(token); <<>> is the empty string it returns for a drop
_normalize_token(w) ==
  LET token == lower(strip_quote(w)) IN
    IF Len(token) < 2 THEN <<>>
    ELSE IF isdigit(token) THEN <<>>
    ELSE strip_suffix(token, 1)

RECURSIVE finditer(_, _)
\* TOKEN_RE.finditer(text): the maximal runs of token characters, in order;
\* cur is the run being read
finditer(text, cur) ==
  IF text = <<>> THEN (IF cur = <<>> THEN <<>> ELSE <<cur>>)
  ELSE IF Head(text) \in TokenChars
       THEN finditer(Tail(text), Append(cur, Head(text)))
  ELSE (IF cur = <<>> THEN <<>> ELSE <<cur>>) \o finditer(Tail(text), <<>>)

RECURSIVE tokenize_runs(_)
\* the loop of _tokenize over the matches
tokenize_runs(runs) ==
  IF runs = <<>> THEN <<>>
  ELSE LET token == _normalize_token(Head(runs)) IN
       IF token # <<>> /\ Str(token) \notin STOPWORDS
       THEN <<Str(token)>> \o tokenize_runs(Tail(runs))
       ELSE tokenize_runs(Tail(runs))

\* _tokenize(text): the tokens, as strings
_tokenize(text) == tokenize_runs(finditer(text, <<>>))

\* the chapter texts given to the index: "", "the", "the fox"
ChapterTexts ==
  { <<>>, <<"t", "h", "e">>, <<"t", "h", "e", " ", "f", "o", "x">> }

\* Counter(tokens)
Counter(tokens) ==
  [t \in {tokens[k] : k \in 1..Len(tokens)} |->
     Cardinality({k \in 1..Len(tokens) : tokens[k] = t})]

\* chapter.text is None
NoneText == <<"None">>

\* getattr(chapter, "text", "") or ""
text_or_empty(chapter) ==
  IF chapter.text = NoneText THEN <<>> ELSE chapter.text

\* the loop without "if not tokens: continue": every chapter gets a document
RECURSIVE build_documents_keeping_empty(_, _)
build_documents_keeping_empty(spine, k) ==
  IF k > Len(spine) THEN <<>>
  ELSE LET tokens == _tokenize(text_or_empty(spine[k])) IN
       << [chapter_index |-> k - 1, length |-> Len(tokens),
           term_freq |-> Counter(tokens)] >>
       \o build_documents_keeping_empty(spine, k + 1)

RECURSIVE build_documents(_, _)
\* the loop over enumerate(book.spine), from chapter number k (1-based) on
build_documents(spine, k) ==
  IF k > Len(spine) THEN <<>>
  ELSE LET tokens == _tokenize(text_or_empty(spine[k])) IN
       IF tokens = <<>> THEN build_documents(spine, k + 1)
       ELSE << [chapter_index |-> k - 1, length |-> Len(tokens),
                term_freq |-> Counter(tokens)] >>
            \o build_documents(spine, k + 1)

\* what json.load gives for the file: an index document, or no document
NoData == [form |-> "none"]

Malformed == [form |-> "malformed"]

IndexDoc(version, processed_at, generated_at, chapter_count, documents) ==
  [form |-> "index", index_version |-> version, processed_at |-> processed_at,
   generated_at |-> generated_at, chapter_count |-> chapter_count,
   documents |-> documents]

NoFile == [exists |-> FALSE, mtime |-> 0, data |-> NoData]

IndexFile(mtime, data) == [exists |-> TRUE, mtime |-> mtime, data |-> data]

NoCache == [present |-> FALSE, mtime |-> 0, data |-> NoData]

CacheEntry(mtime, data) == [present |-> TRUE, mtime |-> mtime, data |-> data]

\* _load_index returning the cached data without comparing the mtime
load_index_ignoring_mtime(file, cache) ==
  IF ~file.exists
  THEN [raised |-> FALSE, data |-> NoData, cache |-> cache, parsed |-> FALSE]
  ELSE IF cache.present
       THEN [raised |-> FALSE, data |-> cache.data, cache |-> cache,
             parsed |-> FALSE]
  ELSE IF file.data.form = "malformed"
       THEN [raised |-> TRUE, data |-> NoData, cache |-> cache, parsed |-> TRUE]
  ELSE [raised |-> FALSE, data |-> file.data,
        cache |-> CacheEntry(file.mtime, file.data), parsed |-> TRUE]

\* _load_index: what it returns or that it raises, _INDEX_CACHE after it, and
\* whether it read the file with json.load
_load_index(file, cache) ==
  IF ~file.exists
  THEN [raised |-> FALSE, data |-> NoData, cache |-> cache, parsed |-> FALSE]
  ELSE IF cache.present /\ cache.mtime = file.mtime
       THEN [raised |-> FALSE, data |-> cache.data, cache |-> cache,
             parsed |-> FALSE]
  ELSE IF file.data.form = "malformed"
       THEN [raised |-> TRUE, data |-> NoData, cache |-> cache, parsed |-> TRUE]
  ELSE [raised |-> FALSE, data |-> file.data,
        cache |-> CacheEntry(file.mtime, file.data), parsed |-> TRUE]

\* _write_index(path, data) at time clk, when its writes succeed: the file
\* replaced through the temp file, and the cache entry with the file's mtime
_write_index(data, clk) ==
  [file |-> IndexFile(clk + 1, data), cache |-> CacheEntry(clk + 1, data),
   clock |-> clk + 1]

\* _should_rebuild without the chapter_count test
should_rebuild_ignoring_count(index, b) ==
  IF index.form = "none" THEN TRUE
  ELSE IF index.index_version # INDEX_VERSION THEN TRUE
  ELSE IF index.processed_at # b.processed_at THEN TRUE
  ELSE FALSE

_should_rebuild(index, b) ==
  IF index.form = "none" THEN TRUE
  ELSE IF index.index_version # INDEX_VERSION THEN TRUE
  ELSE IF index.processed_at # b.processed_at THEN TRUE
  ELSE IF index.chapter_count # Len(b.spine) THEN TRUE
  ELSE FALSE

\* the index ensure_book_index builds for b at time now
build_index(b, now) ==
  IndexDoc(INDEX_VERSION, b.processed_at, now, Len(b.spine),
           build_documents(b.spine, 1))

\* the Books the index is asked about
IndexBooks ==
  [processed_at : Stamps,
   spine : SeqsUpTo([text : ChapterTexts], MaxChapters)]

\* index documents written by something other than this process: an older
\* version of the program, another process
ForeignDocs ==
  { IndexDoc(v, p, 0, c, <<>>) :
      v \in {0, INDEX_VERSION}, p \in Stamps, c \in 0..MaxChapters }
  \cup {Malformed}

NoCall == [op |-> "none"]

\* the books of the library
BookIds == {"b1", "b2"}

\* load_book_fn(book_id) returned None
NoneBook == [none |-> TRUE]

(* ------------------------ the progress callback ----------------------- *)

\* progress_callback: absent, a function that returns, a function that raises
Callbacks == {"None", "returns", "raises"}

\* _progress without its try/except: an exception of the callback escapes
progress_unguarded(callback, log, pct) ==
  [log |-> IF callback = "None" THEN log ELSE Append(log, pct),
   escaped |-> callback = "raises"]

\* _progress(pct, msg): the log of the calls of the callback after it, and
\* whether an exception leaves it
_progress(callback, log, pct) ==
  [log |-> IF callback = "None" THEN log ELSE Append(log, pct),
   escaped |-> FALSE]

\* page_pct = 15 + int(75 * (i / max(total_pages, 1)))
page_pct(page_idx, total) ==
  15 + ((75 * page_idx) \div (IF total > 1 THEN total ELSE 1))

(* ------------------------------- state -------------------------------- *)

VARIABLES
  kind,                \* which normaliser runs: "pdf" or "epub"
  pdf,                 \* the PDF input
  epub,                \* the EPUB input
  generate_thumbnails, \* process_pdf's flag
  pc,                  \* the position of the run
  fs,                  \* Paths -> directory
  parent_exists,       \* whether dirname(output_dir) exists
  tmp_dir,             \* the local tmp_dir: "unset", "tmp_dir" or "None"
  total_pages,
  i,                   \* the loop index
  spine_chapters,
  toc_structure,
  pdf_page_data,
  image_map,
  failed_pages,
  has_native_toc,
  final_book,
  result,              \* what the call gave: nothing yet, a Book, or an error
  faults,              \* history: page index -> the failures injected into it
  env_fault,           \* history: a failure other than a page's was injected
  fs0,                 \* history: fs when the call began
  parent0,             \* history: parent_exists when the call began
  progress_callback,   \* process_pdf's argument: "None", or what it does
  progress_log         \* history: the percentages the callback was called with

VARIABLES
  book,                \* the Book the index calls are given
  index_file,          \* the file semantic_index.json of the book directory
  index_cache,         \* the entry of _INDEX_CACHE for that file
  clock,               \* the time, which file modification times are read from
  last                 \* history: the last call of ensure_book_index

VARIABLES
  input_text,          \* the text given to the tokenizer
  tokens,              \* what _tokenize(input_text) returned
  query_terms          \* the query terms semantic_search_books made of input_text

VARIABLES
  library,             \* book id -> the Book load_book_fn gives, or None
  index_files,         \* book id -> the index file of the book's directory
  index_caches,        \* book id -> the entry of _INDEX_CACHE for that file
  search_query,        \* the arguments of semantic_search_books
  search_ids,
  search_limit,
  search               \* history: the last call of semantic_search_books

VARIABLES
  pdf_book,            \* the Book search_pdf_text_positions is given
  pos_query,           \* its query
  search_page,         \* its page_num: None, or one page index
  store,               \* book_dir, the retained PDF in it, and fitz
  positions            \* history: what the call returned or raised

VARIABLES
  epub_items,          \* book.get_items() of the EPUB whose images are extracted
  extracted            \* history: the files written and image_map after the loop

VARIABLES
  names,               \* directory entry ("index", "tmp") -> inode, 0 if absent
  inodes,              \* inode -> the two halves of the file's content
  tpc,                 \* thread -> where its ensure_book_index call stands
  handle,              \* thread -> the inode its open file object writes to
  tindex,              \* thread -> the index it loaded or built
  tret                 \* thread -> what its call returned or raised

VARIABLES
  outline_items,       \* doc.get_toc() given to extract_pdf_outline
  outline_toc          \* history: what extract_pdf_outline returned

VARIABLES
  raw_token,           \* the match given to _normalize_token
  normalized           \* history: what _normalize_token returned

idx == <<book, index_file, index_cache, clock, last>>

tok == <<input_text, tokens, query_terms>>

sea ==
  <<library, index_files, index_caches, search_query, search_ids,
    search_limit, search>>

pos == <<pdf_book, pos_query, search_page, store, positions>>

img == <<epub_items, extracted>>

con == <<names, inodes, tpc, handle, tindex, tret>>

otl == <<outline_items, outline_toc>>

stm == <<raw_token, normalized>>

ext == <<img, con, otl, stm>>

srch == <<tok, sea, pos, ext>>

norm ==
  <<kind, pdf, epub, generate_thumbnails, pc, fs, parent_exists, tmp_dir,
    total_pages, i, spine_chapters, toc_structure, pdf_page_data, image_map,
    failed_pages, has_native_toc, final_book, result, faults, env_fault,
    fs0, parent0, progress_callback, progress_log>>

vars == <<norm, idx, srch>>

inputs ==
  <<kind, pdf, epub, generate_thumbnails, fs0, parent0, progress_callback>>

locals ==
  <<total_pages, i, spine_chapters, toc_structure, pdf_page_data, image_map,
    failed_pages, has_native_toc, final_book>>

NoResult == [status |-> "none", book |-> NoBook, exc |-> "None", error |-> "None"]

Returned(b) == [status |-> "book", book |-> b, exc |-> "None", error |-> "None"]

Raised(exc, msg) == [status |-> "raised", book |-> NoBook, exc |-> exc, error |-> msg]

\* the directories a call can find: nothing there (with or without the
\* parent directory), a prior output with or without a leftover backup, a
\* leftover backup alone
FsInits ==
  { <<[p \in Paths |-> NoDir], FALSE>>,
    <<[p \in Paths |-> NoDir], TRUE>>,
    <<[p \in Paths |-> IF p = "output_dir" THEN Dir(PriorFiles) ELSE NoDir], TRUE>>,
    <<[p \in Paths |-> IF p = "output_dir" THEN Dir(PriorFiles)
                       ELSE IF p = "backup_dir" THEN Dir(StaleFiles) ELSE NoDir], TRUE>>,
    <<[p \in Paths |-> IF p = "backup_dir" THEN Dir(StaleFiles) ELSE NoDir], TRUE>> }

InitLocals ==
  /\ pc = "start"
  /\ tmp_dir = "unset"
  /\ total_pages = 0
  /\ i = 0
  /\ spine_chapters = <<>>
  /\ toc_structure = <<>>
  /\ pdf_page_data = EmptyDict
  /\ image_map = {}
  /\ failed_pages = <<>>
  /\ has_native_toc = FALSE
  /\ final_book = NoBook
  /\ result = NoResult
  /\ faults = EmptyDict
  /\ env_fault = FALSE
  /\ progress_log = <<>>

\* no index call is under way
IdleIndex ==
  /\ book = [processed_at |-> 1, spine |-> <<>>]
  /\ index_file = NoFile
  /\ index_cache = NoCache
  /\ clock = 0
  /\ last = NoCall

\* a call that was not made, and a call that returned value
NotRun == [done |-> FALSE, value |-> <<>>]

Ran(value) == [done |-> TRUE, value |-> value]

\* no tokenizer call is under way
IdleTokens ==
  /\ input_text = <<>>
  /\ tokens = NotRun
  /\ query_terms = NotRun

\* no search call is under way
IdleSearchBooks ==
  /\ library = [id \in BookIds |-> NoneBook]
  /\ index_files = [id \in BookIds |-> NoFile]
  /\ index_caches = [id \in BookIds |-> NoCache]
  /\ search_query = <<>>
  /\ search_ids = <<>>
  /\ search_limit = 0
  /\ search = NoCall

\* page_num = None
NonePage == <<>>

\* no Book and no book directory
NoPdfBook ==
  [is_pdf |-> FALSE, spine |-> <<>>, pdf_total_pages |-> 0,
   pdf_source_path |-> "None"]

NoStore == [book_dir |-> "None", file_exists |-> FALSE, fitz |-> "ok"]

\* a call of search_pdf_text_positions: not made, returned, raised
NoPositions == [status |-> "none", matches |-> <<>>, exc |-> "None"]

PositionsReturned(results) ==
  [status |-> "returned", matches |-> results, exc |-> "None"]

PositionsRaised(exc) == [status |-> "raised", matches |-> <<>>, exc |-> exc]

\* the image loop of process_epub: not run, ran to its end, raised
NotExtracted == [status |-> "none", files |-> {}, image_map |-> {}]

\* no image extraction is under way
IdleImages ==
  /\ epub_items = <<>>
  /\ extracted = NotExtracted

\* the threads that call ensure_book_index for one book directory
Threads == {1, 2}

\* the inodes a behaviour can need: the stored index and one per open()
Inodes == 1..3

\* half a file that was not written (a hole, or beyond the end)
NoHalf == [doc |-> NoData, part |-> 0]

\* the part-th half of the JSON text of index document doc
Half(doc, part) == [doc |-> doc, part |-> part]

\* a file: the halves of its content and its modification time
Content(cells, mtime) == [cells |-> cells, mtime |-> mtime]

EmptyContent == Content(<<NoHalf, NoHalf>>, 0)

NoReturn == [status |-> "none", index |-> NoData, exc |-> "None"]

\* no thread calls ensure_book_index
IdleConcurrent ==
  /\ names = [n \in {"index", "tmp"} |-> 0]
  /\ inodes = [n \in Inodes |-> EmptyContent]
  /\ tpc = [t \in Threads |-> "start"]
  /\ handle = [t \in Threads |-> 0]
  /\ tindex = [t \in Threads |-> NoData]
  /\ tret = [t \in Threads |-> NoReturn]

\* no call of extract_pdf_outline alone
IdleOutline ==
  /\ outline_items = <<>>
  /\ outline_toc = NotRun

\* no call of _normalize_token alone
IdleStem ==
  /\ raw_token = <<>>
  /\ normalized = NotRun

IdleExt == IdleImages /\ IdleConcurrent /\ IdleOutline /\ IdleStem

\* no positional search is under way
IdlePositions ==
  /\ pdf_book = NoPdfBook
  /\ pos_query = <<>>
  /\ search_page = NonePage
  /\ store = NoStore
  /\ positions = NoPositions

IdleSearch ==
  /\ IdleTokens
  /\ IdleSearchBooks
  /\ IdlePositions
  /\ IdleExt

Init ==
  /\ kind \in {"pdf", "epub"}
  /\ IF kind = "pdf"
     THEN /\ pdf \in PdfInputs /\ epub = NoEpub
          /\ generate_thumbnails \in BOOLEAN
          /\ progress_callback \in Callbacks
     ELSE /\ pdf = NoPdf /\ epub \in EpubInputs
          /\ generate_thumbnails = FALSE
          /\ progress_callback = "None"
  /\ \E d \in FsInits : fs = d[1] /\ parent_exists = d[2]
  /\ fs0 = fs
  /\ parent0 = parent_exists
  /\ InitLocals
  /\ IdleIndex
  /\ IdleSearch

(* ----------------------------- process_pdf ---------------------------- *)

\* an exception that left _progress leaves process_pdf, from next_pc on
CallbackRaises(next_pc, rest) ==
  /\ result' = Raised("Exception", "progress_callback")
  /\ pc' = next_pc
  /\ UNCHANGED rest


\* 1. validate: raise ValueError(validation["error"]) unless valid
PdfValidate ==
  /\ kind = "pdf" /\ pc = "start"
  /\ progress_log' = _progress(progress_callback, progress_log, 5).log
  /\ LET validation == validate_pdf(pdf) IN
       IF _progress(progress_callback, progress_log, 5).escaped
       THEN CallbackRaises("raised", <<>>)
       ELSE IF ~validation.valid
       THEN /\ result' = Raised("ValueError", validation.error)
            /\ pc' = "raised"
       ELSE /\ pc' = "open"
            /\ UNCHANGED result
  /\ UNCHANGED <<idx, srch, inputs, fs, parent_exists, tmp_dir, locals, faults, env_fault>>

\* 2. open: fitz.open again; total_pages = len(doc)
PdfOpen ==
  /\ kind = "pdf" /\ pc = "open"
  /\ progress_log' = _progress(progress_callback, progress_log, 8).log
  /\ \E ok \in BOOLEAN :
       IF _progress(progress_callback, progress_log, 8).escaped
       THEN CallbackRaises("raised", <<total_pages, env_fault>>)
       ELSE IF ok
       THEN /\ total_pages' = pdf.pages
            /\ pc' = "mkscratch"
            /\ UNCHANGED <<result, env_fault>>
       ELSE /\ result' = Raised("ValueError", "Failed to open PDF")
            /\ env_fault' = TRUE
            /\ pc' = "raised"
            /\ UNCHANGED total_pages
  /\ UNCHANGED <<idx, srch, inputs, fs, parent_exists, tmp_dir, i, spine_chapters,
                 toc_structure, pdf_page_data, image_map, failed_pages,
                 has_native_toc, final_book, faults>>

\* 3. os.makedirs(parent_dir, exist_ok=True); tmp_dir = tempfile.mkdtemp(...)
\* (both normalisers; outside the try, so a failure is not cleaned up after)
MkScratch ==
  /\ pc = "mkscratch"
  /\ parent_exists' = TRUE
  /\ \E ok \in BOOLEAN :
       IF ok
       THEN /\ fs' = [fs EXCEPT !["tmp_dir"] = Dir({})]
            /\ tmp_dir' = "tmp_dir"
            /\ pc' = "setup"
            /\ UNCHANGED <<result, env_fault>>
       ELSE /\ result' = Raised("OSError", "mkdtemp")
            /\ env_fault' = TRUE
            /\ pc' = "raised"
            /\ UNCHANGED <<fs, tmp_dir>>
  /\ UNCHANGED <<idx, srch, inputs, progress_log, locals, faults>>

\* images/ and thumbnails/ are made and the source is copied to source.pdf
PdfSetup ==
  /\ kind = "pdf" /\ pc = "setup"
  /\ fs' = write_files(fs, build_dir, {File("source", 0, "new")})
  /\ pc' = "outline"
  /\ UNCHANGED <<idx, srch, inputs, progress_log, parent_exists, tmp_dir, locals, result, faults, env_fault>>

\* toc_structure = extract_pdf_outline(doc), [] when that raises
PdfOutline ==
  /\ kind = "pdf" /\ pc = "outline"
  /\ LET p12 == _progress(progress_callback, progress_log, 12)
         p15 == _progress(progress_callback, p12.log, 15)
     IN IF p12.escaped
        THEN /\ progress_log' = p12.log
             /\ CallbackRaises("finally", <<toc_structure, has_native_toc, i>>)
        ELSE /\ progress_log' = p15.log
             /\ IF p15.escaped
                THEN CallbackRaises("finally", <<toc_structure, has_native_toc, i>>)
                ELSE /\ toc_structure' = IF pdf.outline_raises THEN <<>>
                                         ELSE extract_pdf_outline(pdf.outline)
                     /\ has_native_toc' = (Len(toc_structure') > 0)
                     /\ i' = 0
                     /\ pc' = "pages"
                     /\ UNCHANGED result
  /\ UNCHANGED <<idx, srch, inputs, fs, parent_exists, tmp_dir, total_pages,
                 spine_chapters, pdf_page_data, image_map, failed_pages,
                 final_book, faults, env_fault>>

\* one iteration of the page loop
PdfPageBody ==
  /\ \E F \in PageFaultSets, text \in PageTexts :
       /\ F # {} => text = <<"w">>
       /\ LET st == [spine_chapters |-> spine_chapters, image_map |-> image_map,
                     pdf_page_data |-> pdf_page_data,
                     toc_structure |-> toc_structure,
                     failed_pages |-> failed_pages, fs |-> fs]
              r == process_page(i, F, text, st, has_native_toc, generate_thumbnails)
          IN /\ spine_chapters' = r.spine_chapters
             /\ image_map' = r.image_map
             /\ pdf_page_data' = r.pdf_page_data
             /\ toc_structure' = r.toc_structure
             /\ failed_pages' = r.failed_pages
             /\ fs' = r.fs
       /\ faults' = Put(faults, i, F)
  /\ i' = i + 1
  /\ UNCHANGED <<pc, result>>

PdfPage ==
  /\ kind = "pdf" /\ pc = "pages" /\ i < total_pages
  /\ progress_log' = _progress(progress_callback, progress_log,
                               page_pct(i, total_pages)).log
  /\ IF _progress(progress_callback, progress_log,
                  page_pct(i, total_pages)).escaped
     THEN CallbackRaises("finally",
            <<spine_chapters, image_map, pdf_page_data, toc_structure,
              failed_pages, fs, faults, i>>)
     ELSE PdfPageBody
  /\ UNCHANGED <<idx, srch, inputs, parent_exists, tmp_dir, total_pages,
                 has_native_toc, final_book, env_fault>>

\* after the loop: the all-pages-failed check, then the Book is assembled
PdfFinish ==
  /\ kind = "pdf" /\ pc = "pages" /\ i = total_pages
  /\ IF all_pages_failed(failed_pages, total_pages)
     THEN /\ result' = Raised("ValueError", "All pages failed to process.")
          /\ pc' = "finally"
          /\ UNCHANGED final_book
          /\ UNCHANGED progress_log
     ELSE /\ progress_log' = _progress(progress_callback, progress_log, 92).log
          /\ IF _progress(progress_callback, progress_log, 92).escaped
             THEN CallbackRaises("finally", <<final_book>>)
             ELSE /\ final_book' = sanitize_book_text_fields(
                                     Book(spine_chapters, toc_structure, image_map,
                                          TRUE, pdf_page_data, total_pages,
                                          has_native_toc, generate_thumbnails))
                  /\ pc' = "commit"
                  /\ UNCHANGED result
  /\ UNCHANGED <<idx, srch, inputs, fs, parent_exists, tmp_dir, total_pages, i,
                 spine_chapters, toc_structure, pdf_page_data, image_map,
                 failed_pages, has_native_toc, faults, env_fault>>

(* ----------------------------- process_epub --------------------------- *)

\* 1. book = epub.read_epub(epub_path), which raises on an unreadable container
EpubRead ==
  /\ kind = "epub" /\ pc = "start"
  /\ IF epub.readable
     THEN /\ pc' = "mkscratch"
          /\ UNCHANGED result
     ELSE /\ result' = Raised("EpubException", "read_epub")
          /\ pc' = "raised"
  /\ UNCHANGED <<idx, srch, inputs, progress_log, fs, parent_exists, tmp_dir, locals, faults, env_fault>>

\* 4. every image item is written under images/ and entered in image_map
\* under its full internal path and under its basename; 4.5 the cover
EpubImages ==
  /\ kind = "epub" /\ pc = "setup"
  /\ fs' = write_files(fs, build_dir,
                       {File("image", k, "new") : k \in 1..epub.images})
  /\ image_map' = UNION { { <<<<"path", k>>, <<"images", k>> >>,
                            <<<<"name", k>>, <<"images", k>> >> } :
                          k \in 1..epub.images }
  /\ pc' = "toc"
  /\ UNCHANGED <<idx, srch, inputs, progress_log, parent_exists, tmp_dir, total_pages, i,
                 spine_chapters, toc_structure, pdf_page_data, failed_pages,
                 has_native_toc, final_book, result, faults, env_fault>>

\* 5. the TOC, or the fallback TOC when it is empty
EpubToc ==
  /\ kind = "epub" /\ pc = "toc"
  /\ toc_structure' = IF parse_toc_recursive(epub.toc) # <<>>
                      THEN parse_toc_recursive(epub.toc)
                      ELSE get_fallback_toc(epub.spine)
  /\ i' = 0
  /\ pc' = "pages"
  /\ UNCHANGED <<idx, srch, inputs, progress_log, fs, parent_exists, tmp_dir, total_pages,
                 spine_chapters, pdf_page_data, image_map, failed_pages,
                 has_native_toc, final_book, result, faults, env_fault>>

\* 6. one iteration of the loop over book.spine
EpubItem ==
  /\ kind = "epub" /\ pc = "pages" /\ i < Len(epub.spine)
  /\ spine_chapters' = epub_spine_item(i, epub.spine[i + 1], spine_chapters)
  /\ i' = i + 1
  /\ UNCHANGED <<idx, srch, inputs, progress_log, pc, fs, parent_exists, tmp_dir, total_pages,
                 toc_structure, pdf_page_data, image_map, failed_pages,
                 has_native_toc, final_book, result, faults, env_fault>>

\* 7. final assembly
EpubFinish ==
  /\ kind = "epub" /\ pc = "pages" /\ i = Len(epub.spine)
  /\ final_book' = sanitize_book_text_fields(
                     Book(spine_chapters, toc_structure, image_map, FALSE,
                          EmptyDict, 0, FALSE, FALSE))
  /\ pc' = "commit"
  /\ UNCHANGED <<idx, srch, inputs, progress_log, fs, parent_exists, tmp_dir, total_pages, i,
                 spine_chapters, toc_structure, pdf_page_data, image_map,
                 failed_pages, has_native_toc, result, faults, env_fault>>

(* ------------------- the try/finally of both normalisers -------------- *)

BuildPcs == {"setup", "outline", "toc", "pages"}

\* a build step raises an exception nothing catches (a write fails, the disk
\* is full, a parser error)
Raise ==
  /\ pc \in BuildPcs
  /\ result' = Raised("Exception", "build step failed")
  /\ env_fault' = TRUE
  /\ pc' = "finally"
  /\ UNCHANGED <<idx, srch, inputs, progress_log, fs, parent_exists, tmp_dir,
                 locals, faults>>

\* the except clause without the restoring rename
no_restore(f) == f

\* "os.rename(backup_dir, output_dir)" in the except clause of the swap
restore_backup(f) == os_rename(f, "backup_dir", "output_dir")

\* "if os.path.exists(output_dir)", and the removal of a stale backup
CommitBegin ==
  /\ pc = "commit"
  /\ LET p == IF kind = "pdf"
              THEN _progress(progress_callback, progress_log, 95)
              ELSE [log |-> progress_log, escaped |-> FALSE]
     IN /\ progress_log' = p.log
        /\ IF p.escaped
           THEN CallbackRaises("finally", <<fs>>)
           ELSE /\ IF fs["output_dir"].exists
                   THEN /\ fs' = IF fs["backup_dir"].exists
                                 THEN rmtree(fs, "backup_dir") ELSE fs
                        /\ pc' = "to_backup"
                   ELSE /\ pc' = "rename_only"
                        /\ UNCHANGED fs
                /\ UNCHANGED result
  /\ UNCHANGED <<idx, srch, inputs, parent_exists, tmp_dir, locals, faults, env_fault>>

\* os.rename(output_dir, backup_dir)
RenameToBackup ==
  /\ pc = "to_backup"
  /\ \E ok \in BOOLEAN :
       IF ok
       THEN /\ fs' = os_rename(fs, "output_dir", "backup_dir")
            /\ pc' = "to_final"
            /\ UNCHANGED <<result, env_fault>>
       ELSE /\ result' = Raised("OSError", "rename to backup")
            /\ env_fault' = TRUE
            /\ pc' = "finally"
            /\ UNCHANGED fs
  /\ UNCHANGED <<idx, srch, inputs, progress_log, parent_exists, tmp_dir, locals, faults>>

\* os.rename(tmp_dir, output_dir) with a backup; on failure the backup is
\* restored and the error raised again
RenameToFinal ==
  /\ pc = "to_final"
  /\ \E ok \in BOOLEAN :
       IF ok
       THEN /\ fs' = os_rename(fs, "tmp_dir", "output_dir")
            /\ pc' = "rm_backup"
            /\ UNCHANGED <<result, env_fault>>
       ELSE /\ fs' = restore_backup(fs)
            /\ result' = Raised("OSError", "rename to final")
            /\ env_fault' = TRUE
            /\ pc' = "finally"
  /\ UNCHANGED <<idx, srch, inputs, progress_log, parent_exists, tmp_dir, locals, faults>>

\* shutil.rmtree(backup_dir); tmp_dir = None; return final_book
RemoveBackup ==
  /\ pc = "rm_backup"
  /\ fs' = rmtree(fs, "backup_dir")
  /\ tmp_dir' = "None"
  /\ LET p == IF kind = "pdf"
              THEN _progress(progress_callback, progress_log, 100)
              ELSE [log |-> progress_log, escaped |-> FALSE]
     IN /\ progress_log' = p.log
        /\ IF p.escaped
           THEN CallbackRaises("finally", <<>>)
           ELSE /\ result' = Returned(final_book)
                /\ pc' = "returned"
  /\ UNCHANGED <<idx, srch, inputs, parent_exists, locals, faults, env_fault>>

\* the else branch: os.rename(tmp_dir, output_dir); tmp_dir = None; return
RenameOnly ==
  /\ pc = "rename_only"
  /\ \E ok \in BOOLEAN :
       IF ok
       THEN /\ fs' = os_rename(fs, "tmp_dir", "output_dir")
            /\ tmp_dir' = "None"
            /\ LET p == IF kind = "pdf"
                        THEN _progress(progress_callback, progress_log, 100)
                        ELSE [log |-> progress_log, escaped |-> FALSE]
               IN /\ progress_log' = p.log
                  /\ IF p.escaped
                     THEN CallbackRaises("finally", <<>>)
                     ELSE /\ result' = Returned(final_book)
                          /\ pc' = "returned"
            /\ UNCHANGED env_fault
       ELSE /\ result' = Raised("OSError", "rename to final")
            /\ env_fault' = TRUE
            /\ pc' = "finally"
            /\ UNCHANGED <<fs, tmp_dir, progress_log>>
  /\ UNCHANGED <<idx, srch, inputs, parent_exists, locals, faults>>

\* a finally clause that leaves the scratch directory behind
no_cleanup(f, t) == f

\* the body of the finally clause
finally_cleanup(f, t) ==
  IF t # "None" /\ f[t].exists THEN rmtree(f, t) ELSE f

\* finally: if tmp_dir and os.path.exists(tmp_dir): shutil.rmtree(tmp_dir)
Finally ==
  /\ pc = "finally"
  /\ fs' = finally_cleanup(fs, tmp_dir)
  /\ pc' = "raised"
  /\ UNCHANGED <<idx, srch, inputs, progress_log, parent_exists, tmp_dir, locals, result, faults, env_fault>>

(* --------------------- save_to_pickle, from __main__ ------------------ *)

\* the directory save_to_pickle is given: __main__ passes out_dir, the
\* directory process_epub was given as output_dir
pickle_dir == "output_dir"

\* book.pkl is opened for writing and the Book dumped into it
SavePickle ==
  /\ kind = "epub" /\ pc = "returned"
  /\ \E ok \in BOOLEAN :
       IF ok
       THEN /\ fs' = write_files(fs, pickle_dir, {File("pkl", 0, "new")})
            /\ pc' = "save_meta"
       ELSE /\ fs' = write_files(fs, pickle_dir, {File("pkl.partial", 0, "new")})
            /\ pc' = "save_failed"
  /\ UNCHANGED <<idx, srch, inputs, progress_log, parent_exists, tmp_dir, locals, result, faults, env_fault>>

\* book_meta.json; an exception here is printed and swallowed
SaveMeta ==
  /\ pc = "save_meta"
  /\ \E ok \in BOOLEAN :
       fs' = IF ok THEN write_files(fs, pickle_dir, {File("meta", 0, "new")}) ELSE fs
  /\ pc' = "saved"
  /\ UNCHANGED <<idx, srch, inputs, progress_log, parent_exists, tmp_dir, locals, result, faults, env_fault>>

Next ==
  \/ PdfValidate
  \/ PdfOpen
  \/ MkScratch
  \/ PdfSetup
  \/ PdfOutline
  \/ PdfPage
  \/ PdfFinish
  \/ EpubRead
  \/ EpubImages
  \/ EpubToc
  \/ EpubItem
  \/ EpubFinish
  \/ Raise
  \/ CommitBegin
  \/ RenameToBackup
  \/ RenameToFinal
  \/ RemoveBackup
  \/ RenameOnly
  \/ Finally
  \/ SavePickle
  \/ SaveMeta

Spec == Init /\ [][Next]_vars

(* ======================= properties of the normalisers ================= *)

HadPrior == fs0["output_dir"].exists

\* the call of process_pdf / process_epub is running or has just ended
InRun == pc \notin {"save_meta", "save_failed", "saved"}

AllNew(files) == \A f \in files : f[3] = "new"

\* files holds everything the Book b refers to
CompleteOutput(files, b) ==
  IF b.is_pdf
  THEN /\ File("source", 0, "new") \in files
       /\ \A k \in 1..Len(b.spine) :
            b.spine[k].content[1] = "img" => File("image", k, "new") \in files
  ELSE \A k \in 1..epub.images : File("image", k, "new") \in files

\* C1: during a run over an existing output directory, failing or not, a
\* directory at the final output path is either exactly the prior output or
\* exactly the completely built new output, which nothing writes into any more
C1_FinalIsPriorOrNew ==
  (HadPrior /\ InRun /\ fs["output_dir"].exists) =>
     \/ fs["output_dir"] = fs0["output_dir"]
     \/ /\ pc \in {"rm_backup", "returned"}
        /\ AllNew(fs["output_dir"].files)
        /\ final_book.is_book
        /\ CompleteOutput(fs["output_dir"].files, final_book)

C1_Witness ==
  /\ HadPrior
  /\ pc = "returned"
  /\ fs["output_dir"].exists
  /\ fs["output_dir"] # fs0["output_dir"]
  /\ DOMAIN faults # {}

\* C2: with a prior output the commit renames it to the backup, then renames
\* the scratch directory to the final path, then deletes the backup; when the
\* second rename fails the backup is renamed back, the final path holds the
\* prior output again with the same contents, and the call raises
C2_CommitWithPrior ==
  HadPrior =>
    /\ pc = "to_final" =>
         /\ ~fs["output_dir"].exists
         /\ fs["backup_dir"] = fs0["output_dir"]
         /\ fs["tmp_dir"].exists
    /\ pc = "rm_backup" =>
         /\ fs["backup_dir"] = fs0["output_dir"]
         /\ fs["output_dir"].exists /\ AllNew(fs["output_dir"].files)
         /\ ~fs["tmp_dir"].exists
    /\ pc = "returned" => ~fs["backup_dir"].exists /\ result.status = "book"
    /\ (pc \in {"finally", "raised"} /\ result.error = "rename to final") =>
         /\ fs["output_dir"] = fs0["output_dir"]
         /\ ~fs["backup_dir"].exists
         /\ result.status = "raised"
         /\ result.book = NoBook

C2_Witness ==
  /\ HadPrior
  /\ pc = "raised"
  /\ result.error = "rename to final"
  /\ fs["output_dir"] = Dir(PriorFiles)

\* the failures after which the page is replaced by a placeholder: page load,
\* page render, and an unexpected error (page geometry, page rotation)
FatalKinds == {"load", "rect", "render", "rotation"}

FailedSet == {p \in DOMAIN faults : faults[p] \cap FatalKinds # {}}

IsPlaceholder(ch, pd) ==
  /\ ch.content[1] = "error"
  /\ ch.text = <<>>
  /\ pd.word_count = 0
  /\ ~pd.has_images

\* C3: a Book returned for an N-page PDF has exactly one spine entry per
\* source page, in page order, pdf_total_pages = N and pdf_page_data keyed by
\* 0..N-1, and the entry of every failed page is a placeholder
C3_PageContiguity ==
  (kind = "pdf" /\ result.status = "book") =>
    LET b == result.book
        N == pdf.pages
    IN /\ Len(b.spine) = N
       /\ b.pdf_total_pages = N
       /\ DOMAIN b.pdf_page_data = 0..(N - 1)
       /\ \A p \in 0..(N - 1) :
            /\ b.spine[p + 1].id = PageId(p + 1)
            /\ b.pdf_page_data[p].page_num = p
       /\ \A p \in FailedSet : IsPlaceholder(b.spine[p + 1], b.pdf_page_data[p])

C3_Witness ==
  /\ kind = "pdf"
  /\ result.status = "book"
  /\ FailedSet # {}
  /\ FailedSet # 0..(pdf.pages - 1)
  /\ Len(result.book.spine) = MaxPages

\* C4: in every returned Book spine[i].order = i
C4_OrderEqualsIndex ==
  result.status = "book" =>
    \A k \in 1..Len(result.book.spine) : result.book.spine[k].order = k - 1

\* C4, for the Books of process_pdf alone
C4_PdfOrderEqualsIndex ==
  (kind = "pdf" /\ result.status = "book") =>
    \A k \in 1..Len(result.book.spine) : result.book.spine[k].order = k - 1

AllFailed ==
  /\ DOMAIN faults = 0..(pdf.pages - 1)
  /\ \A p \in DOMAIN faults : faults[p] \cap FatalKinds # {}

\* C5: a validated PDF makes process_pdf raise, with nothing committed, when
\* all its pages failed; when a page succeeded, process_pdf raises only if a
\* step other than a page's failed
C5_RaisesIffAllPagesFailed ==
  (kind = "pdf" /\ validate_pdf(pdf).valid /\ pc \in {"returned", "raised"}) =>
    /\ AllFailed =>
         /\ result.status = "raised"
         /\ fs["output_dir"] = fs0["output_dir"]
    /\ (result.status = "raised" /\ ~env_fault) =>
         /\ AllFailed
         /\ result = Raised("ValueError", "All pages failed to process.")
         /\ fs["output_dir"] = fs0["output_dir"]
    /\ (~AllFailed /\ ~env_fault) => result.status = "book"

C5_Witness ==
  /\ kind = "pdf"
  /\ pc = "raised"
  /\ ~env_fault
  /\ AllFailed
  /\ pdf.pages = MaxPages

\* the three extraction steps of a page
ExtractionKinds == {"text", "render", "annot"}

ValidationChecks(f) ==
  << <<f.header = "junk", "File is not a valid PDF (bad header magic bytes).">>,
     <<f.header = "unreadable", "Cannot read file">>,
     <<~f.openable, "Cannot open PDF">>,
     <<f.needs_pass, "PDF is password-protected.">>,
     <<f.is_encrypted, "PDF is encrypted.">>,
     <<f.pages = 0, "PDF has no pages.">>,
     <<~f.first_page_ok, "PDF appears corrupted (cannot read first page)">> >>

FailingChecks(f) ==
  {k \in 1..Len(ValidationChecks(f)) : ValidationChecks(f)[k][1]}

FirstFailingReason(f) ==
  LET k == CHOOSE m \in FailingChecks(f) : \A n \in FailingChecks(f) : m <= n
  IN ValidationChecks(f)[k][2]

\* C7: on a file that fails a validation check process_pdf raises ValueError
\* with the reason of the first failing check, before a scratch directory is
\* made; the output directory and its parent are as they were
C7_ValidationFailureRaises ==
  (kind = "pdf" /\ pc # "start" /\ FailingChecks(pdf) # {}) =>
    /\ pc = "raised"
    /\ result = Raised("ValueError", FirstFailingReason(pdf))
    /\ tmp_dir = "unset"
    /\ fs = fs0
    /\ parent_exists = parent0

C7_Witness ==
  /\ kind = "pdf"
  /\ pc = "raised"
  /\ pdf.header = "%PDF" /\ pdf.openable
  /\ pdf.needs_pass /\ pdf.is_encrypted /\ pdf.pages = 0
  /\ ~parent0
  /\ result.error = "PDF is password-protected."

\* C8: a directory at the final output path is never written into: its
\* contents change only by a rename that puts a whole directory there
C8_FinalNeverWrittenInto ==
  [][(fs["output_dir"].exists /\ fs'["output_dir"].exists)
       => fs'["output_dir"] = fs["output_dir"]]_vars

\* C8: the directory swapped into place holds the persisted Book
C8_SwappedDirIsLoadable ==
  (pc = "returned" /\ kind = "epub") =>
    File("pkl", 0, "new") \in fs["output_dir"].files

BuildErrors == {"build step failed", "All pages failed to process."}

\* C9 as stated: when a step raises after the scratch directory was made and
\* before the commit renames, the scratch directory is deleted and the final
\* output path is as it was before the call; after a call that returned,
\* neither the scratch directory nor the backup exists
C9_ScratchAndBackupGone ==
  /\ (pc = "raised" /\ result.error \in BuildErrors) =>
       /\ ~fs["tmp_dir"].exists
       /\ fs["output_dir"] = fs0["output_dir"]
  /\ result.status = "book" =>
       /\ ~fs["tmp_dir"].exists
       /\ ~fs["backup_dir"].exists

\* C9, amended: as stated for a call that raises; after a call that returned
\* the scratch directory does not exist, the backup does not exist if a prior
\* output existed, and a backup directory found where no prior output existed
\* is left as it was
C9_ScratchCleanedUp ==
  /\ (pc = "raised" /\ result.error \in BuildErrors) =>
       /\ ~fs["tmp_dir"].exists
       /\ fs["output_dir"] = fs0["output_dir"]
  /\ result.status = "book" =>
       /\ ~fs["tmp_dir"].exists
       /\ HadPrior => ~fs["backup_dir"].exists
       /\ ~HadPrior => fs["backup_dir"] = fs0["backup_dir"]

C9_Witness ==
  /\ pc = "raised"
  /\ result.error = "build step failed"
  /\ i > 0
  /\ fs0["output_dir"].exists
  /\ ~fs["tmp_dir"].exists

\* the string, given as the list of its words, holds a surrogate code point
HasSurrogate(value) == \E k \in 1..Len(value) : value[k] = Surrogate

\* C17: no string of a returned Book holds a code point of the surrogate
\* range: not the chapter texts, and not the type, content, author or created
\* of an annotation in pdf_page_data
C17_NoSurrogateInBook ==
  result.status = "book" =>
    /\ \A k \in 1..Len(result.book.spine) :
         ~HasSurrogate(result.book.spine[k].text)
    /\ \A p \in DOMAIN result.book.pdf_page_data :
         \A a \in 1..Len(result.book.pdf_page_data[p].annotations) :
           LET annot == result.book.pdf_page_data[p].annotations[a] IN
             /\ ~HasSurrogate(annot.type)
             /\ ~HasSurrogate(annot.content)
             /\ ~HasSurrogate(annot.author)
             /\ ~HasSurrogate(annot.created)

\* the chapter texts of a returned Book hold no surrogate code point
C17_ChapterTextsSanitized ==
  result.status = "book" =>
    \A k \in 1..Len(result.book.spine) :
      ~HasSurrogate(result.book.spine[k].text)

\* file_href is the part of href before the first '#', and the anchor is
\* empty when href has no '#'
HrefSplit(entry) ==
  /\ entry.file_href = split_hash(entry.href)[1]
  /\ ~has_hash(entry.href) => entry.anchor = EmptyStr

\* C18: every TOCEntry of a Book made by either normaliser, at every depth,
\* before and after text sanitization, has file_href == href.split('#')[0]
\* and an empty anchor whenever href holds no '#'
C18_FileHrefIsHrefBeforeHash ==
  /\ \A k \in 1..Len(toc_structure) : HrefSplit(toc_structure[k])
  /\ final_book # NoBook =>
       \A k \in 1..Len(final_book.toc) : HrefSplit(final_book.toc[k])

\* the same for the Books of process_pdf alone
C18_PdfFileHrefIsHrefBeforeHash ==
  kind = "pdf" => C18_FileHrefIsHrefBeforeHash

(* ---------------------- C19: the progress callback --------------------- *)

\* every percentage process_pdf reports over a run that returns a Book
AllMilestones(total) ==
  <<5, 8, 12, 15>> \o [j \in 1..total |-> page_pct(j - 1, total)]
                  \o <<92, 95, 100>>

IsPrefix(s, t) == Len(s) <= Len(t) /\ \A j \in 1..Len(s) : s[j] = t[j]

\* C19: a failing progress callback never aborts process_pdf. No run ends
\* with the exception of the callback; a callback that raises is invoked at
\* every milestone a callback that returns is invoked at, in the same order,
\* up to and including 100 when a Book is returned; an absent callback is
\* never invoked.
C19_CallbackFailureNeverAborts ==
  kind = "pdf" =>
    /\ result.error # "progress_callback"
    /\ progress_callback = "None" => progress_log = <<>>
    /\ pc \notin {"start", "open", "raised"} =>
         IsPrefix(progress_log, AllMilestones(total_pages))
    /\ (progress_callback # "None" /\ result.status = "book") =>
         progress_log = AllMilestones(total_pages)

\* a run with a callback that raises at every call returned a Book in which
\* one page failed and another did not
C19_Witness ==
  /\ kind = "pdf" /\ progress_callback = "raises"
  /\ result.status = "book"
  /\ failed_pages # <<>> /\ Len(failed_pages) < total_pages
  /\ progress_log = AllMilestones(total_pages)
  /\ fs["output_dir"].exists

(* ------------------- C27: outline entries and the spine ---------------- *)

\* the spine chapters a TOC entry joins to by file_href == href
JoinedChapters(b, entry) ==
  {j \in 1..Len(b.spine) : b.spine[j].href = entry.file_href}

\* C27: in a processed N-page PDF with a native outline, the TOC entry of
\* each outline item with 1-based source page p, 1 <= p <= N, has the href
\* token of the spine chapter at 0-based index p-1 as href and file_href and
\* an empty anchor, and joins by file_href == href to exactly that chapter
C27_OutlineEntryJoinsItsPage ==
  (kind = "pdf" /\ final_book # NoBook /\ final_book.pdf_has_toc) =>
    /\ Len(final_book.toc) = Len(pdf.outline)
    /\ \A k \in 1..Len(pdf.outline) :
         LET p == pdf.outline[k].page
             entry == final_book.toc[k]
         IN (1 <= p /\ p <= final_book.pdf_total_pages) =>
              /\ entry.href = final_book.spine[p].href
              /\ entry.file_href = final_book.spine[p].href
              /\ entry.anchor = EmptyStr
              /\ final_book.spine[p].order = p - 1
              /\ JoinedChapters(final_book, entry) = {p}

\* a Book of a 2-page PDF whose first outline item points to page 2 and
\* whose second points to page 1
C27_Witness ==
  /\ kind = "pdf" /\ result.status = "book"
  /\ final_book.pdf_has_toc /\ final_book.pdf_total_pages = 2
  /\ pdf.outline[1].page = 2 /\ pdf.outline[2].page = 1
  /\ JoinedChapters(final_book, final_book.toc[1]) = {2}
  /\ JoinedChapters(final_book, final_book.toc[2]) = {1}

(* ------------------- C28: which TOC a PDF gets ------------------------- *)

\* doc.get_toc() returned a non-empty list and extract_pdf_outline returned
NativeOutline == ~pdf.outline_raises /\ Len(pdf.outline) > 0

\* a per-page entry: title "Page n", as the loop and the placeholder make them
IsPageEntry(entry) == entry.title[1] = "Page"

\* C28: a processed PDF with a non-empty native outline has the outline tree
\* as its toc, pdf_has_toc true and no per-page entry; with an empty outline
\* or a failed extraction pdf_has_toc is false and toc has exactly one entry
\* per source page in page order, entry i titled "Page i+1" with file_href
\* equal to spine[i].href, for converted and placeholder pages alike
C28_TocSelection ==
  (kind = "pdf" /\ final_book # NoBook) =>
    IF NativeOutline
    THEN /\ final_book.pdf_has_toc
         /\ final_book.toc =
              sanitize_toc_entries(extract_pdf_outline(pdf.outline))
         /\ \A k \in 1..Len(final_book.toc) : ~IsPageEntry(final_book.toc[k])
    ELSE /\ ~final_book.pdf_has_toc
         /\ Len(final_book.toc) = final_book.pdf_total_pages
         /\ Len(final_book.spine) = final_book.pdf_total_pages
         /\ \A k \in 1..Len(final_book.toc) :
              /\ final_book.toc[k].title = <<"Page", k>>
              /\ final_book.toc[k].file_href = final_book.spine[k].href
              /\ final_book.toc[k].href = final_book.spine[k].href
              /\ final_book.toc[k].anchor = EmptyStr
              /\ final_book.toc[k].parent = 0

\* a returned Book of a 2-page PDF whose outline extraction failed and one of
\* whose pages is a placeholder: two per-page entries
C28_Witness ==
  /\ kind = "pdf" /\ result.status = "book"
  /\ pdf.outline_raises /\ Len(pdf.outline) > 0
  /\ Len(failed_pages) = 1 /\ final_book.pdf_total_pages = 2
  /\ ~final_book.pdf_has_toc /\ Len(final_book.toc) = 2

(* ========================= ensure_book_index =========================== *)

\* no normaliser runs
IdleNormaliser ==
  /\ kind = "pdf" /\ pdf = NoPdf /\ epub = NoEpub /\ generate_thumbnails = FALSE
  /\ progress_callback = "None"
  /\ fs = [p \in Paths |-> NoDir] /\ parent_exists = FALSE
  /\ fs0 = fs /\ parent0 = parent_exists
  /\ InitLocals

InitIndex ==
  /\ IdleNormaliser
  /\ book \in IndexBooks
  /\ index_file = NoFile
  /\ index_cache = NoCache
  /\ clock = 0
  /\ last = NoCall
  /\ IdleSearch

Call(raised, ret, rebuilt) ==
  [op |-> "ensure", raised |-> raised, ret |-> ret, rebuilt |-> rebuilt]

\* ensure_book_index returning whatever _INDEX_CACHE holds for the path
ensure_trusting_cache(b, file, cache, clk) ==
  IF cache.present
  THEN [raised |-> FALSE, ret |-> cache.data, rebuilt |-> FALSE,
        file |-> file, cache |-> cache, clock |-> clk]
  ELSE LET now == clk + 1
           index == build_index(b, now)
       IN [raised |-> FALSE, ret |-> index, rebuilt |-> TRUE,
           file |-> IndexFile(now, index),
           cache |-> CacheEntry(now, index), clock |-> now]

\* ensure_book_index(book_id, book, book_dir) called at time clk with the
\* index file and the cache entry as given: what it returns or that it
\* raises, and the file, the cache entry and the time after it
ensure_book_index(b, file, cache, clk) ==
  LET ld == _load_index(file, cache) IN
    IF ld.raised
    THEN [raised |-> TRUE, ret |-> NoData, rebuilt |-> FALSE,
          file |-> file, cache |-> ld.cache, clock |-> clk]
    ELSE IF ~_should_rebuild(ld.data, b)
    THEN [raised |-> FALSE, ret |-> ld.data, rebuilt |-> FALSE,
          file |-> file, cache |-> ld.cache, clock |-> clk]
    ELSE LET index == build_index(b, clk + 1)
             w == _write_index(index, clk)
         IN [raised |-> FALSE, ret |-> index, rebuilt |-> TRUE,
             file |-> w.file, cache |-> w.cache, clock |-> w.clock]

\* a call of ensure_book_index for the book
EnsureBookIndex ==
  /\ clock < MaxClock
  /\ \E r \in {ensure_book_index(book, index_file, index_cache, clock)} :
       /\ index_file' = r.file
       /\ index_cache' = r.cache
       /\ clock' = r.clock
       /\ last' = Call(r.raised, r.ret, r.rebuilt)
  /\ UNCHANGED <<book, norm, srch>>

\* the book is processed again: a Book with another processed_at replaces it
\* and the swap of the book directory removes the index file
Reprocess ==
  /\ \E b \in IndexBooks :
       /\ b.processed_at # book.processed_at
       /\ book' = b
  /\ index_file' = NoFile
  /\ UNCHANGED <<index_cache, clock, last, norm, srch>>

\* the index file is replaced from outside, with a new modification time
ForeignWrite ==
  /\ clock < MaxClock
  /\ \E d \in ForeignDocs : index_file' = IndexFile(clock + 1, d)
  /\ clock' = clock + 1
  /\ UNCHANGED <<book, index_cache, last, norm, srch>>

\* the index file is deleted from outside
ForeignDelete ==
  /\ index_file.exists
  /\ index_file' = NoFile
  /\ UNCHANGED <<book, index_cache, clock, last, norm, srch>>

NextIndex ==
  \/ EnsureBookIndex
  \/ Reprocess
  \/ ForeignWrite
  \/ ForeignDelete

SpecIndex == InitIndex /\ [][NextIndex]_vars

\* the stored index calls for a rebuild
StoredIndexStale(file, b) ==
  \/ ~file.exists
  \/ file.data.index_version # INDEX_VERSION
  \/ file.data.processed_at # b.processed_at
  \/ file.data.chapter_count # Len(b.spine)

\* C10: on a missing or well-formed index file (a replaced file having a new
\* modification time) ensure_book_index rebuilds the index and rewrites the
\* file exactly when no file exists or the stored index_version, processed_at
\* or chapter_count differs from the current one; otherwise it returns the
\* stored index and leaves the file as it is
C10_RebuildIffStale ==
  [][(EnsureBookIndex /\ index_file.data.form # "malformed") =>
       /\ ~last'.raised
       /\ last'.rebuilt <=> StoredIndexStale(index_file, book)
       /\ last'.rebuilt =>
            /\ last'.ret = build_index(book, clock')
            /\ index_file' = IndexFile(clock', last'.ret)
            /\ clock' > index_file.mtime
       /\ ~last'.rebuilt =>
            /\ last'.ret = index_file.data
            /\ index_file' = index_file]_vars

\* a call found a stored index that is current and returned it
C10_Witness ==
  /\ last.op = "ensure"
  /\ ~last.raised
  /\ ~last.rebuilt
  /\ index_file.exists
  /\ last.ret = index_file.data
  /\ last.ret.chapter_count = MaxChapters
  /\ last.ret.generated_at = 0

\* C11: a call of ensure_book_index that finds a malformed index file does not
\* raise; it rebuilds the index from the Book, as for a missing file, and
\* replaces the malformed file with the rebuilt index
C11_MalformedTreatedAsMissing ==
  [][(EnsureBookIndex /\ index_file.exists
        /\ index_file.data.form = "malformed") =>
       /\ ~last'.raised
       /\ last'.rebuilt
       /\ last'.ret = build_index(book, clock')
       /\ index_file' = IndexFile(clock', last'.ret)]_vars

(* ------------------------- C21: a fresh index -------------------------- *)

\* largest number of chapters of a Book an index is built for
MaxBuildChapters == 3

\* chapter texts: None, "", "the", "the fox", "fox fox"
BuildTexts ==
  ChapterTexts \cup {NoneText, <<"f", "o", "x", " ", "f", "o", "x">>}

BuildBooks ==
  [processed_at : {1},
   spine : SeqsUpTo([text : BuildTexts], MaxBuildChapters)]

InitBuild ==
  /\ IdleNormaliser
  /\ book \in BuildBooks
  /\ index_file = NoFile
  /\ index_cache = NoCache
  /\ clock = 0
  /\ last = NoCall
  /\ IdleSearch

NextBuild == EnsureBookIndex

\* ensure_book_index called for a book whose directory holds no index yet
SpecBuild == InitBuild /\ [][NextBuild]_vars

RECURSIVE SumOver(_, _)
\* the sum of the values of a term_freq map over the keys given
SumOver(term_freq, keys) ==
  IF keys = {} THEN 0
  ELSE LET t == CHOOSE t \in keys : TRUE
       IN term_freq[t] + SumOver(term_freq, keys \ {t})

\* the number of tokens of the chapter at 0-based position c of the spine
TokenCount(c) == Len(_tokenize(text_or_empty(book.spine[c + 1])))

\* C21: a freshly built index has exactly one document for each spine
\* chapter whose text yields a token, in increasing chapter_index order, the
\* chapter_index being the position in the spine, length being the token
\* count (>= 1) and the sum of the counts of term_freq; a chapter that yields
\* no token has no document; chapter_count is len(book.spine)
C21_OneDocumentPerTokenChapter ==
  (last.op = "ensure" /\ last.rebuilt) =>
    LET docs == last.ret.documents IN
    /\ last.ret.chapter_count = Len(book.spine)
    /\ \A c \in 0..(Len(book.spine) - 1) :
         Cardinality({k \in 1..Len(docs) : docs[k].chapter_index = c})
           = IF TokenCount(c) >= 1 THEN 1 ELSE 0
    /\ \A k \in 1..Len(docs) :
         /\ docs[k].chapter_index \in 0..(Len(book.spine) - 1)
         /\ docs[k].length = TokenCount(docs[k].chapter_index)
         /\ docs[k].length >= 1
         /\ docs[k].length
              = SumOver(docs[k].term_freq, DOMAIN docs[k].term_freq)
    /\ \A k \in 1..(Len(docs) - 1) :
         docs[k].chapter_index < docs[k + 1].chapter_index

\* an index was built for a book whose first chapter has no text, whose
\* second holds only a stopword and whose third holds one term twice
C21_Witness ==
  /\ last.op = "ensure" /\ last.rebuilt
  /\ Len(book.spine) = 3
  /\ book.spine[1].text = NoneText
  /\ book.spine[2].text = <<"t", "h", "e">>
  /\ Len(last.ret.documents) = 1
  /\ last.ret.documents[1].chapter_index = 2
  /\ last.ret.documents[1].length = 2

(* ============================ the tokenizer ============================ *)

\* longest text given to the tokenizer
MaxText == 4

\* the characters of those texts: letters, an upper-case letter, an
\* apostrophe, a digit and a separator
TextAlphabet == {"t", "h", "i", "s", "T", "'", "5", " "}

Texts == SeqsUpTo(TextAlphabet, MaxText)

RECURSIVE raw_tokens_of(_)
\* raw_tokens of semantic_search_books: the matches in lower case, without
\* those of one character and those that are stopwords
raw_tokens_of(runs) ==
  IF runs = <<>> THEN <<>>
  ELSE LET t == lower(Head(runs)) IN
       IF Len(t) > 1 /\ Str(t) \notin STOPWORDS
       THEN <<t>> \o raw_tokens_of(Tail(runs))
       ELSE raw_tokens_of(Tail(runs))

RECURSIVE query_terms_of(_)
\* query_terms of semantic_search_books, from raw_tokens
query_terms_of(raw_tokens) ==
  IF raw_tokens = <<>> THEN <<>>
  ELSE LET t == _normalize_token(Head(raw_tokens)) IN
       IF t # <<>> /\ Str(t) \notin STOPWORDS
       THEN <<Str(t)>> \o query_terms_of(Tail(raw_tokens))
       ELSE query_terms_of(Tail(raw_tokens))

\* the terms semantic_search_books scores a query with
search_query_terms(q) ==
  query_terms_of(raw_tokens_of(finditer(q, <<>>)))

InitTokens ==
  /\ IdleNormaliser
  /\ IdleIndex
  /\ IdleSearchBooks
  /\ IdlePositions
  /\ IdleExt
  /\ input_text \in Texts
  /\ tokens = NotRun
  /\ query_terms = NotRun

\* _tokenize(text), as the index builder calls it for a chapter
Tokenize ==
  /\ ~tokens.done
  /\ tokens' = Ran(_tokenize(input_text))
  /\ UNCHANGED <<input_text, query_terms, norm, idx, sea, pos, ext>>

\* the first lines of semantic_search_books(query, ...)
QueryTerms ==
  /\ ~query_terms.done
  /\ query_terms' = Ran(search_query_terms(input_text))
  /\ UNCHANGED <<input_text, tokens, norm, idx, sea, pos, ext>>

NextTokens ==
  \/ Tokenize
  \/ QueryTerms

SpecTokens == InitTokens /\ [][NextTokens]_vars

(* ------------------------- _normalize_token ---------------------------- *)

\* longest stem ahead of the suffixes of a token
MaxStem == 2

\* the characters of the stems: a letter, its upper case, a digit
StemChars == {"t", "T", "5"}

\* nothing, or one of the suffixes
SuffixOrNone == {<<>>} \cup {Suffixes[k] : k \in 1..Len(Suffixes)}

\* nothing, or an apostrophe
QuoteOrNone == {<<>>, <<"'">>}

\* the matches given to _normalize_token: a stem, up to two suffixes, with
\* or without apostrophes around
RawTokens ==
  {q1 \o pre \o s1 \o s2 \o q2 :
     q1 \in QuoteOrNone, pre \in SeqsUpTo(StemChars, MaxStem),
     s1 \in SuffixOrNone, s2 \in SuffixOrNone, q2 \in QuoteOrNone}

InitStem ==
  /\ IdleNormaliser
  /\ IdleIndex
  /\ IdleTokens
  /\ IdleSearchBooks
  /\ IdlePositions
  /\ IdleImages
  /\ IdleConcurrent
  /\ IdleOutline
  /\ raw_token \in RawTokens
  /\ normalized = NotRun

\* _normalize_token(token)
NormalizeToken ==
  /\ normalized = NotRun
  /\ normalized' = Ran(_normalize_token(raw_token))
  /\ UNCHANGED <<norm, idx, tok, sea, pos, img, con, otl, raw_token>>

NextStem == NormalizeToken

SpecStem == InitStem /\ [][NextStem]_vars

\* the suffixes that qualify for a token: it ends with them and is more than
\* two characters longer
Qualifying(token) ==
  {k \in 1..Len(Suffixes) :
     endswith(token, Suffixes[k]) /\ Len(token) > Len(Suffixes[k]) + 2}

\* the least number of a non-empty set of numbers
Least(S) == CHOOSE k \in S : \A j \in S : k <= j

\* C30: for a token that is not dropped as short or numeric,
\* _normalize_token cuts off exactly one suffix, the first in the order ing,
\* edly, ed, ly, es, s that the lower-cased, apostrophe-trimmed token ends
\* with and is more than two characters longer than; a suffix that matches
\* but is too long for the token is passed over and the later ones are
\* tried; with no such suffix the trimmed lower-case token is returned; a
\* stripped result has at least 3 characters and loses no second suffix
C30_FirstQualifyingSuffixOnly ==
  normalized.done =>
    LET token == lower(strip_quote(raw_token))
        Q == Qualifying(token)
    IN (Len(token) >= 2 /\ ~isdigit(token)) =>
         IF Q = {}
         THEN normalized.value = token
         ELSE /\ normalized.value \o Suffixes[Least(Q)] = token
              /\ Len(normalized.value) >= 3

\* "Ttes": "es" matches but would leave 2 characters, "s" is tried next and
\* cut off, and the result "tte" keeps its "e"
C30_Witness ==
  /\ raw_token = <<"T", "t", "e", "s">>
  /\ normalized.done
  /\ normalized.value = <<"t", "t", "e">>

(* ------------------- C29: what a token can be -------------------------- *)

\* the strings str.isdigit() accepts, up to the longest text
NumericStrings == {Str(w) : w \in SeqsUpTo(Digits, MaxText) \ {<<>>}}

\* C29 (as stated): no token returned by _tokenize is purely numeric
C29_TokensNeverNumeric ==
  tokens.done =>
    \A k \in 1..Len(tokens.value) : tokens.value[k] \notin NumericStrings

\* C29 (the part the code keeps): every token returned by _tokenize has at
\* least 2 characters and is not a stopword
C29_TokensLongAndNotStopwords ==
  tokens.done =>
    \A k \in 1..Len(tokens.value) :
      /\ Len(tokens.value[k]) >= 2
      /\ tokens.value[k] \notin STOPWORDS

RECURSIVE reference_runs(_)
\* the pipeline in the order the specification gives: trim and lower, drop
\* the short, drop the numeric, drop the stopwords, then strip a suffix
reference_runs(runs) ==
  IF runs = <<>> THEN <<>>
  ELSE LET t == lower(strip_quote(Head(runs))) IN
       IF Len(t) < 2 \/ isdigit(t) \/ Str(t) \in STOPWORDS
       THEN reference_runs(Tail(runs))
       ELSE <<Str(strip_suffix(t, 1))>> \o reference_runs(Tail(runs))

ReferencePipeline(t) == reference_runs(finditer(t, <<>>))

\* C12: _tokenize(text) is the reference pipeline: runs of letters, digits
\* and apostrophes, trimmed and lower-cased, without the runs shorter than 2,
\* the numeric ones and the stopwords, each survivor suffix-stripped once; so
\* a word of the stopword set yields no token
C12_TokenizeIsReferencePipeline ==
  tokens.done => tokens.value = ReferencePipeline(input_text)

\* C13: the query terms semantic_search_books scores with are _tokenize(q),
\* the tokens the index builder makes of a chapter with text q
C13_QueryTermsAreTokens ==
  query_terms.done => query_terms.value = _tokenize(input_text)

(* ======================== semantic_search_books ======================== *)

\* the chapter texts of the library: "", "fox", "fox fox", "fox dog"
SearchTexts ==
  { <<>>, <<"f", "o", "x">>, <<"f", "o", "x", " ", "f", "o", "x">>,
    <<"f", "o", "x", " ", "d", "o", "g">> }

SearchBooks ==
  [processed_at : {1}, spine : SeqsUpTo([text : SearchTexts], MaxChapters)]

\* the queries: "", "the", "5 t", "fox", "dog", "dog fox"
Queries ==
  { <<>>, <<"t", "h", "e">>, <<"5", " ", "t">>, <<"f", "o", "x">>,
    <<"d", "o", "g">>, <<"d", "o", "g", " ", "f", "o", "x">> }

Limits == {0, 1, 100}

\* k1 = 1.2 and b = 0.75, as fractions
k1 == [num |-> 6, den |-> 5]

b == [num |-> 3, den |-> 4]

\* math.log(1 + (total_docs - doc_freq + 0.5) / (doc_freq + 0.5)) in
\* thousandths, rounded down: idf_milli[total_docs][doc_freq]
idf_milli ==
  << <<287>>,
     <<693, 182>>,
     <<980, 470, 133>>,
     <<1203, 693, 356, 105>>,
     <<1386, 875, 538, 287, 87>>,
     <<1540, 1029, 693, 441, 241, 74>> >>

RECURSIVE pool_docs(_, _)
\* the documents of one book's index that go into the pool
pool_docs(book_id, documents) ==
  IF documents = <<>> THEN <<>>
  ELSE LET doc == Head(documents) IN
       IF doc.length <= 0 THEN pool_docs(book_id, Tail(documents))
       ELSE << [book_id |-> book_id, chapter_index |-> doc.chapter_index,
                length |-> doc.length, term_freq |-> doc.term_freq] >>
            \o pool_docs(book_id, Tail(documents))

RECURSIVE search_load(_, _, _)
\* the loop over book_ids: load the book, ensure its index, pool its documents
search_load(ids, lib, st) ==
  IF ids = <<>> \/ st.raised THEN st
  ELSE LET id == Head(ids)
           st1 == [st EXCEPT !.loaded = Append(@, id)]
       IN IF lib[id] = NoneBook THEN search_load(Tail(ids), lib, st1)
          ELSE LET r == ensure_book_index(lib[id], st.files[id],
                                          st.caches[id], st.clock)
               IN IF r.raised
                  THEN [st1 EXCEPT !.raised = TRUE, !.caches[id] = r.cache]
                  ELSE search_load(Tail(ids), lib,
                         [st1 EXCEPT !.files[id] = r.file,
                                     !.caches[id] = r.cache,
                                     !.clock = r.clock,
                                     !.docs = @ \o pool_docs(id, r.ret.documents)])

RECURSIVE sum_lengths(_)
sum_lengths(docs) ==
  IF docs = <<>> THEN 0 ELSE Head(docs).length + sum_lengths(Tail(docs))

\* term_freq.get(term, 0)
tf_of(doc, term) ==
  IF term \in DOMAIN doc.term_freq THEN doc.term_freq[term] ELSE 0

\* df[term]
doc_freq(docs, term) ==
  Cardinality({n \in 1..Len(docs) : term \in DOMAIN docs[n].term_freq})

\* tf_part_milli without the length of the document: tf * (k1 + 1) / (tf + k1)
tf_part_without_length(tf, doc_len, total_docs, total_len) ==
  (1000 * tf * (k1.num + k1.den)) \div (k1.den * tf + k1.num)

\* tf * (k1 + 1) / (tf + k1 * (1 - b + b * doc_len / avg_doc_len)) in
\* thousandths, rounded down, with avg_doc_len = total_len / total_docs;
\* numerator and denominator are both multiplied by k1.den * b.den * total_len
tf_part_milli(tf, doc_len, total_docs, total_len) ==
  (1000 * tf * (k1.num + k1.den) * b.den * total_len)
    \div (k1.den * b.den * tf * total_len
          + k1.num * ((b.den - b.num) * total_len + b.num * doc_len * total_docs))

\* idf * (tf * (k1 + 1) / denom), in millionths
bm25_term(tf, doc_len, total_docs, total_len, df) ==
  IF tf <= 0 THEN 0
  ELSE idf_milli[total_docs][df] * tf_part_milli(tf, doc_len, total_docs, total_len)

RECURSIVE bm25_score(_, _, _)
\* the score of a document for the set of query terms, in millionths
bm25_score(doc, docs, terms) ==
  IF terms = {} THEN 0
  ELSE LET term == CHOOSE t \in terms : TRUE IN
       bm25_term(tf_of(doc, term), doc.length, Len(docs), sum_lengths(docs),
                 doc_freq(docs, term))
       + bm25_score(doc, docs, terms \ {term})

RECURSIVE score_docs_keeping_zero(_, _, _)
\* score_docs without the test score > 0
score_docs_keeping_zero(rest, docs, terms) ==
  IF rest = <<>> THEN <<>>
  ELSE << [score |-> bm25_score(Head(rest), docs, terms),
           book_id |-> Head(rest).book_id,
           chapter_index |-> Head(rest).chapter_index] >>
       \o score_docs_keeping_zero(Tail(rest), docs, terms)

RECURSIVE score_docs(_, _, _)
\* scored: the documents of the pool with a score above zero, in pool order
score_docs(rest, docs, terms) ==
  IF rest = <<>> THEN <<>>
  ELSE LET score == bm25_score(Head(rest), docs, terms) IN
       IF score > 0
       THEN << [score |-> score, book_id |-> Head(rest).book_id,
                chapter_index |-> Head(rest).chapter_index] >>
            \o score_docs(Tail(rest), docs, terms)
       ELSE score_docs(Tail(rest), docs, terms)

RECURSIVE insert_desc(_, _)
insert_desc(sorted, e) ==
  IF sorted = <<>> THEN <<e>>
  ELSE IF Head(sorted).score >= e.score
       THEN <<Head(sorted)>> \o insert_desc(Tail(sorted), e)
  ELSE <<e>> \o sorted

RECURSIVE sort_desc(_, _)
\* scored.sort(key=score, reverse=True): a stable sort
sort_desc(items, acc) ==
  IF items = <<>> THEN acc
  ELSE sort_desc(Tail(items), insert_desc(acc, Head(items)))

\* scored[:limit]
slice_to(items, lim) ==
  IF lim >= 0
  THEN SubSeq(items, 1, IF lim < Len(items) THEN lim ELSE Len(items))
  ELSE SubSeq(items, 1, Len(items) + lim)

SearchStart(files, caches, clk) ==
  [files |-> files, caches |-> caches, clock |-> clk, docs |-> <<>>,
   loaded |-> <<>>, raised |-> FALSE]

Searched(st, results) ==
  [op |-> "search", raised |-> st.raised, results |-> results,
   loaded |-> st.loaded, pool |-> st.docs, files |-> st.files,
   caches |-> st.caches, clock |-> st.clock]

\* semantic_search_books without the return for a query without terms
search_without_empty_return(q, ids, lib, files, caches, clk, lim) ==
  LET terms == search_query_terms(q)
      st == search_load(ids, lib, SearchStart(files, caches, clk))
  IN IF st.raised THEN Searched(st, <<>>)
     ELSE IF st.docs = <<>> THEN Searched(st, <<>>)
     ELSE Searched(st,
            slice_to(sort_desc(score_docs(st.docs, st.docs,
                                          {terms[n] : n \in 1..Len(terms)}),
                               <<>>), lim))

\* semantic_search_books(query, book_ids, books_dir, load_book_fn, limit)
semantic_search_books(q, ids, lib, files, caches, clk, lim) ==
  LET terms == search_query_terms(q) IN
    IF terms = <<>> THEN Searched(SearchStart(files, caches, clk), <<>>)
    ELSE LET st == search_load(ids, lib, SearchStart(files, caches, clk)) IN
         IF st.raised THEN Searched(st, <<>>)
         ELSE IF st.docs = <<>> THEN Searched(st, <<>>)
         ELSE Searched(st,
                slice_to(sort_desc(score_docs(st.docs, st.docs,
                                              {terms[n] : n \in 1..Len(terms)}),
                                   <<>>), lim))

InitSearch ==
  /\ IdleNormaliser
  /\ IdleIndex
  /\ IdleTokens
  /\ IdlePositions
  /\ IdleExt
  /\ library \in [BookIds -> SearchBooks \cup {NoneBook}]
  /\ index_files \in [BookIds -> {NoFile, IndexFile(0, Malformed)}]
  /\ index_caches = [id \in BookIds |-> NoCache]
  /\ search_query \in Queries
  /\ search_ids \in {<<"b1", "b2">>, <<"b2">>}
  /\ search_limit \in Limits
  /\ search = NoCall

\* a call of semantic_search_books
SemanticSearchBooks ==
  /\ clock < MaxClock
  /\ \E r \in {semantic_search_books(search_query, search_ids, library,
                                      index_files, index_caches, clock,
                                      search_limit)} :
       /\ search' = r
       /\ index_files' = r.files
       /\ index_caches' = r.caches
       /\ clock' = r.clock
  /\ UNCHANGED <<library, search_query, search_ids, search_limit, norm, tok,
                 pos, ext, book, index_file, index_cache, last>>

NextSearch == SemanticSearchBooks

SpecSearch == InitSearch /\ [][NextSearch]_vars

\* C14: a query that yields no term after tokenization (empty, only
\* stopwords, only too short or numeric runs) makes semantic_search_books
\* return [] without raising, calling load_book_fn for no book and leaving
\* every index file and the index cache as they were
C14_EmptyQueryHasNoEffect ==
  [][(SemanticSearchBooks /\ _tokenize(search_query) = <<>>) =>
       /\ ~search'.raised
       /\ search'.results = <<>>
       /\ search'.loaded = <<>>
       /\ index_files' = index_files
       /\ index_caches' = index_caches
       /\ clock' = clock]_vars

\* a search with a query of stopwords or short and numeric runs was made over
\* books whose index a query with terms would have built or failed to read
C14_Witness ==
  /\ search.op = "search"
  /\ search_query # <<>>
  /\ _tokenize(search_query) = <<>>
  /\ search.results = <<>>
  /\ search_ids = <<"b1", "b2">>
  /\ library["b1"] # NoneBook
  /\ index_files["b1"] = NoFile
  /\ index_files["b2"].exists

\* the set of query terms of the call
QueryTermSet ==
  LET terms == search_query_terms(search_query) IN
    {terms[n] : n \in 1..Len(terms)}

\* the chapters of the pool whose term_freq holds a query term
PoolMatching ==
  {n \in 1..Len(search.pool) :
     \E t \in QueryTermSet : t \in DOMAIN search.pool[n].term_freq}

\* the chapters of the pool that are in the results
PoolReturned ==
  {n \in 1..Len(search.pool) :
     \E k \in 1..Len(search.results) :
       /\ search.results[k].book_id = search.pool[n].book_id
       /\ search.results[k].chapter_index = search.pool[n].chapter_index}

\* C15: the results of semantic_search_books are the first `limit` of the
\* pooled chapters that contain a query term, by non-increasing score; a
\* chapter without a query term is not in the results, a chapter with one has
\* a score above zero, and there are at most `limit` results
C15_ResultsAreTopMatches ==
  (search.op = "search" /\ ~search.raised) =>
    LET res == search.results
        pool == search.pool
    IN /\ \A k \in 1..Len(res) :
            \E n \in PoolMatching :
              /\ pool[n].book_id = res[k].book_id
              /\ pool[n].chapter_index = res[k].chapter_index
              /\ res[k].score = bm25_score(pool[n], pool, QueryTermSet)
       /\ \A j, k \in 1..Len(res) :
            /\ j < k => res[j].score >= res[k].score
            /\ j # k => <<res[j].book_id, res[j].chapter_index>>
                          # <<res[k].book_id, res[k].chapter_index>>
       /\ \A n \in PoolMatching : bm25_score(pool[n], pool, QueryTermSet) > 0
       /\ Len(res) = IF search_limit < Cardinality(PoolMatching)
                     THEN search_limit ELSE Cardinality(PoolMatching)
       /\ \A n \in PoolMatching \ PoolReturned :
            \A k \in 1..Len(res) :
              res[k].score >= bm25_score(pool[n], pool, QueryTermSet)
       /\ Len(res) <= search_limit

\* a search over a pool of two chapters, one of them without the query term,
\* returned the other one alone although the limit allowed both
C15_Witness ==
  /\ search.op = "search"
  /\ ~search.raised
  /\ Len(search.pool) = 2
  /\ Cardinality(PoolMatching) = 1
  /\ Len(search.results) = 1
  /\ search_limit > 1

\* chapter m of the pool has the query term at least as often as chapter n,
\* in at most as many tokens, and one of the two strictly
DenserThan(m, n, t) ==
  LET A == search.pool[m]
      B == search.pool[n]
  IN /\ tf_of(B, t) >= 1
     /\ tf_of(A, t) >= tf_of(B, t)
     /\ A.length <= B.length
     /\ (tf_of(A, t) > tf_of(B, t) \/ A.length < B.length)

\* the place of chapter n of the pool in the results, 0 if it is not there
RankOf(n) ==
  LET at == {k \in 1..Len(search.results) :
               /\ search.results[k].book_id = search.pool[n].book_id
               /\ search.results[k].chapter_index = search.pool[n].chapter_index}
  IN IF at = {} THEN 0 ELSE CHOOSE k \in at : TRUE

\* C16: for a query of one term, a chapter with the term at least as often in
\* at most as many tokens as another chapter of the pool (one of the two
\* strictly) has the strictly higher score and is ranked before it; the term
\* 5 times in 50 tokens outranks the term once in 500 tokens
C16_DenserChapterRanksFirst ==
  /\ bm25_term(5, 50, 2, 550, 2) > bm25_term(1, 500, 2, 550, 2)
  /\ (search.op = "search" /\ ~search.raised /\ Cardinality(QueryTermSet) = 1) =>
       \A t \in QueryTermSet :
         \A m, n \in 1..Len(search.pool) :
           DenserThan(m, n, t) =>
             /\ bm25_score(search.pool[m], search.pool, {t})
                  > bm25_score(search.pool[n], search.pool, {t})
             /\ RankOf(n) # 0 => (RankOf(m) # 0 /\ RankOf(m) < RankOf(n))

\* a search for one term returned both chapters of the pool, the one with the
\* term in fewer tokens before the one listed first in the pool
C16_Witness ==
  /\ search.op = "search"
  /\ ~search.raised
  /\ Cardinality(QueryTermSet) = 1
  /\ Len(search.pool) = 2
  /\ \E t \in QueryTermSet : DenserThan(2, 1, t)
  /\ RankOf(2) = 1
  /\ RankOf(1) = 2

(* ===================== search_pdf_text_positions ======================= *)

\* the plain text of a page, as characters
PositionTexts == {<<>>, <<"t">>, <<"T", "h">>, <<"h", "t">>}

\* the spine of a processed PDF: one ChapterContent per page
PositionSpines ==
  {[k \in 1..Len(texts) |-> [text |-> texts[k]]] :
     texts \in SeqsUpTo(PositionTexts, MaxPages)}

\* a PDF book has one spine entry per page; an EPUB book is no PDF
PositionBooks ==
  {[is_pdf |-> TRUE, spine |-> spine, pdf_total_pages |-> Len(spine),
    pdf_source_path |-> path] :
     spine \in PositionSpines, path \in {"None", "source.pdf"}}
  \cup
  {[is_pdf |-> FALSE, spine |-> spine, pdf_total_pages |-> 0,
    pdf_source_path |-> "None"] : spine \in PositionSpines}

PositionQueries ==
  {<<>>, <<"t">>, <<"T">>, <<"t", "h">>, <<"h", " ", "x">>}

\* page_num: None, or an int the caller chose
SearchPages == {NonePage} \cup {<<n>> : n \in (0 - MaxPages - 1)..MaxPages}

\* book_dir, whether the retained PDF is a file in it, and what fitz does.
\* A file can only be there when a path names it.
Stores(bk) ==
  {st \in [book_dir : {"None", "dir"}, file_exists : BOOLEAN,
           fitz : {"ok", "import_fails", "open_fails"}] :
     /\ st.file_exists =>
          (bk.pdf_source_path # "None" /\ st.book_dir # "None")
     /\ st.fitz # "ok" => st.file_exists}

\* "needle in haystack" of two strings
contains(needle, haystack) ==
  \E k \in 0..Len(haystack) :
    /\ k + Len(needle) <= Len(haystack)
    /\ SubSeq(haystack, k + 1, k + Len(needle)) = needle

RECURSIVE words_walk(_, _, _)
words_walk(value, cur, out) ==
  IF value = <<>>
  THEN IF cur = <<>> THEN out ELSE Append(out, cur)
  ELSE IF Head(value) = " "
  THEN words_walk(Tail(value), <<>>, IF cur = <<>> THEN out ELSE Append(out, cur))
  ELSE words_walk(Tail(value), Append(cur, Head(value)), out)

\* str.split(): the words between runs of whitespace
split_words(value) == words_walk(value, <<>>, <<>>)

\* range(n)
range(n) == [j \in 1..n |-> j - 1]

\* seq[k] of Python for -len(seq) <= k < len(seq)
python_index(seq, k) == IF k >= 0 THEN seq[k + 1] ELSE seq[Len(seq) + k + 1]

\* the rect of a text block on its page
BlockRect == <<10, 20, 30, 40>>

TextOnlyMatch(page_idx, query) ==
  [page |-> page_idx, text |-> query, rect |-> <<0, 0, 0, 0>>,
   match_type |-> "text_only"]

BlockMatch(page_idx, text, match_type) ==
  [page |-> page_idx, text |-> text, rect |-> BlockRect,
   match_type |-> match_type]

RECURSIVE fallback_pages(_, _, _, _)
fallback_pages(bk, query, pages_to_search, results) ==
  IF pages_to_search = <<>> THEN PositionsReturned(results)
  ELSE LET page_idx == Head(pages_to_search) IN
       IF page_idx >= Len(bk.spine)
       THEN fallback_pages(bk, query, Tail(pages_to_search), results)
       ELSE IF page_idx < 0 - Len(bk.spine)
       THEN PositionsRaised("IndexError")
       ELSE LET page_text == lower(python_index(bk.spine, page_idx).text) IN
            fallback_pages(bk, query, Tail(pages_to_search),
              IF contains(lower(query), page_text)
              THEN Append(results, TextOnlyMatch(page_idx, query))
              ELSE results)

_search_pdf_text_fallback(bk, query, pages_to_search) ==
  fallback_pages(bk, query, pages_to_search, <<>>)

\* the loop over the pages of the opened document; a page with text has one
\* text block, which holds that text
RECURSIVE block_pages(_, _, _, _)
block_pages(doc, query, pages_to_search, results) ==
  IF pages_to_search = <<>> THEN PositionsReturned(results)
  ELSE LET page_idx == Head(pages_to_search)
           rest == Tail(pages_to_search)
       IN IF page_idx < 0 \/ page_idx >= Len(doc)
          THEN block_pages(doc, query, rest, results)
          ELSE LET block == doc[page_idx + 1].text
                   words == split_words(lower(query))
               IN IF block = <<>>
                  THEN block_pages(doc, query, rest, results)
                  ELSE IF contains(lower(query), lower(block))
                  THEN block_pages(doc, query, rest,
                         Append(results, BlockMatch(page_idx, block, "exact")))
                  ELSE IF \E k \in 1..Len(words) : contains(words[k], lower(block))
                  THEN block_pages(doc, query, rest,
                         Append(results, BlockMatch(page_idx, block, "partial")))
                  ELSE block_pages(doc, query, rest, results)

search_pdf_text_positions(bk, query, page_num, st) ==
  IF ~bk.is_pdf THEN PositionsReturned(<<>>)
  ELSE LET pages_to_search ==
             IF page_num # NonePage THEN page_num
             ELSE range(bk.pdf_total_pages)
           has_path == bk.pdf_source_path # "None" /\ st.book_dir # "None"
       IN IF ~has_path \/ ~st.file_exists
          THEN _search_pdf_text_fallback(bk, query, pages_to_search)
          ELSE IF st.fitz = "import_fails"
          THEN _search_pdf_text_fallback(bk, query, pages_to_search)
          ELSE IF st.fitz = "open_fails"
          THEN PositionsReturned(<<>>)
          ELSE block_pages(bk.spine, query, pages_to_search, <<>>)

InitPositions ==
  /\ IdleNormaliser
  /\ IdleIndex
  /\ IdleTokens
  /\ IdleSearchBooks
  /\ IdleExt
  /\ pdf_book \in PositionBooks
  /\ pos_query \in PositionQueries
  /\ search_page \in SearchPages
  /\ store \in Stores(pdf_book)
  /\ positions = NoPositions

SearchPdfTextPositions ==
  /\ positions = NoPositions
  /\ positions' =
       search_pdf_text_positions(pdf_book, pos_query, search_page, store)
  /\ UNCHANGED <<norm, idx, tok, sea, ext, pdf_book, pos_query, search_page,
                 store>>

NextPositions == SearchPdfTextPositions

SpecPositions == InitPositions /\ [][NextPositions]_vars

\* the retained source PDF is unavailable to a call on a PDF book
SourceUnavailable ==
  /\ pdf_book.is_pdf
  /\ \/ pdf_book.pdf_source_path = "None"
     \/ store.book_dir = "None"
     \/ ~store.file_exists

\* the page indexes the call was asked for
Requested ==
  IF search_page # NonePage THEN {search_page[1]}
  ELSE 0..(pdf_book.pdf_total_pages - 1)

MatchesOf(p) ==
  {k \in 1..Len(positions.matches) : positions.matches[k].page = p}

\* page index p is in range and its persisted text holds the query
TextMatches(p) ==
  /\ 0 <= p /\ p < Len(pdf_book.spine)
  /\ contains(lower(pos_query), lower(pdf_book.spine[p + 1].text))

FallbackContract ==
  /\ positions.status = "returned"
  /\ \A k \in 1..Len(positions.matches) :
       /\ positions.matches[k].page \in Requested
       /\ positions.matches[k].rect = <<0, 0, 0, 0>>
       /\ positions.matches[k].match_type = "text_only"
  /\ \A p \in Requested :
       Cardinality(MatchesOf(p)) = IF TextMatches(p) THEN 1 ELSE 0

\* C20: with the retained source PDF unavailable, a call on a PDF book
\* returns exactly one zero-rect "text_only" match for each requested page
\* index in 0..len(spine)-1 whose persisted text holds the query without
\* regard to case, none for any other requested index, and nothing else
C20_FallbackMatchesRequestedPages ==
  (positions.status # "none" /\ SourceUnavailable) => FallbackContract

\* the same for the calls that ask for no negative page index
C20_NonNegativePagesFollowContract ==
  (/\ positions.status # "none" /\ SourceUnavailable
   /\ \A p \in Requested : p >= 0) => FallbackContract

(* ============== reprocessing, index calls and searches ================= *)

\* semantic_search_books(query, [book_id], ...) where load_book_fn gives the
\* book and the book directory holds index_file
SearchBook ==
  /\ clock < MaxClock
  /\ \E q \in Queries :
       \E r \in {semantic_search_books(
                   q, <<"b1">>,
                   [id \in BookIds |-> IF id = "b1" THEN book ELSE NoneBook],
                   [id \in BookIds |-> IF id = "b1" THEN index_file ELSE NoFile],
                   [id \in BookIds |-> IF id = "b1" THEN index_cache ELSE NoCache],
                   clock, 100)} :
         /\ search' = r
         /\ index_file' = r.files["b1"]
         /\ index_cache' = r.caches["b1"]
         /\ clock' = r.clock
  /\ UNCHANGED <<book, last, norm, tok, pos, ext, library, index_files,
                 index_caches, search_query, search_ids, search_limit>>

NextReprocess ==
  \/ EnsureBookIndex
  \/ Reprocess
  \/ SearchBook

\* one process: the book is processed again and again, and between the
\* runs its index is asked for and searched
SpecReprocess == InitIndex /\ [][NextReprocess]_vars

\* the index is the one of Book bk
IndexOfBook(index, bk) ==
  /\ index.form = "index"
  /\ index.index_version = INDEX_VERSION
  /\ index.processed_at = bk.processed_at
  /\ index.chapter_count = Len(bk.spine)
  /\ index.documents = build_documents(bk.spine, 1)

\* C23: whatever reprocessings, ensure_book_index calls and searches came
\* before, a call of ensure_book_index returns an index whose index_version,
\* processed_at and chapter_count are those of the Book passed in and whose
\* documents were computed from that Book, and a search scores the documents
\* of that Book; an index of an earlier processing, cached or on disk, is
\* never returned
C23_IndexIsOfCurrentBook ==
  [][/\ EnsureBookIndex =>
          (~last'.raised /\ IndexOfBook(last'.ret, book))
     /\ (SearchBook /\ search'.loaded # <<>>) =>
          /\ ~search'.raised
          /\ search'.pool = pool_docs("b1", build_documents(book.spine, 1))
          /\ index_file'.exists /\ IndexOfBook(index_file'.data, book)]_vars

\* after an index was built and cached, the book was processed again, and
\* the next call built the index of the new Book
C23_Witness ==
  /\ last.op = "ensure" /\ last.rebuilt
  /\ clock = 2
  /\ book.processed_at = 2
  /\ IndexOfBook(last.ret, book)
  /\ last.ret.documents # <<>>
  /\ index_cache.present /\ index_cache.data = last.ret

(* ========================= extract_pdf_outline ========================= *)

\* longest outline
MaxOutline == 4

\* the outline levels
OutlineLevels == 1..3

\* doc.get_toc(): every sequence of levels, also ones that skip levels or
\* start above level 1
OutlineLists ==
  SeqsUpTo([level : OutlineLevels, page : {1}], MaxOutline)

InitOutline ==
  /\ IdleNormaliser
  /\ IdleIndex
  /\ IdleTokens
  /\ IdleSearchBooks
  /\ IdlePositions
  /\ IdleStem
  /\ IdleImages
  /\ IdleConcurrent
  /\ outline_items \in OutlineLists
  /\ outline_toc = NotRun

ExtractPdfOutline ==
  /\ outline_toc = NotRun
  /\ outline_toc' = Ran(extract_pdf_outline(outline_items))
  /\ UNCHANGED <<norm, idx, tok, sea, pos, img, con, stm, outline_items>>

NextOutline == ExtractPdfOutline

SpecOutline == InitOutline /\ [][NextOutline]_vars

RECURSIVE Ascending(_)
\* the numbers of a set in increasing order
Ascending(S) ==
  IF S = {} THEN <<>>
  ELSE LET m == CHOOSE m \in S : \A n \in S : m <= n
       IN <<m>> \o Ascending(S \ {m})

\* the children list of entry n (0: the result list), in the order of append
ChildrenOf(toc, n) == Ascending({k \in 1..Len(toc) : toc[k].parent = n})

RECURSIVE Preorder(_, _)
RECURSIVE PreorderAll(_, _)
\* the pre-order traversal of the subtree of entry n
Preorder(toc, n) == <<n>> \o PreorderAll(toc, ChildrenOf(toc, n))

PreorderAll(toc, nodes) ==
  IF nodes = <<>> THEN <<>>
  ELSE Preorder(toc, Head(nodes)) \o PreorderAll(toc, Tail(nodes))

\* the nearest item before item k whose level is smaller, 0 if there is none
NearestSmaller(items, k) ==
  LET before == {j \in 1..(k - 1) : items[j].level < items[k].level}
  IN IF before = {} THEN 0
     ELSE CHOOSE j \in before : \A n \in before : n <= j

\* C26: extract_pdf_outline makes each item a child of the nearest item
\* before it whose level is strictly smaller, or a root entry if there is
\* none; the pre-order traversal of the tree is the flat list in source
\* order, no item lost or duplicated, for every sequence of levels
C26_OutlineTreeKeepsSourceOrder ==
  outline_toc.done =>
    LET toc == outline_toc.value IN
    /\ Len(toc) = Len(outline_items)
    /\ \A k \in 1..Len(toc) :
         /\ toc[k].title = <<"outline", k>>
         /\ toc[k].parent = NearestSmaller(outline_items, k)
    /\ PreorderAll(toc, ChildrenOf(toc, 0))
         = [k \in 1..Len(outline_items) |-> k]

\* an outline that starts at level 2, skips from level 1 to level 3 and then
\* returns to level 2 was turned into a tree
C26_Witness ==
  /\ outline_toc.done
  /\ Len(outline_items) = 4
  /\ outline_items[1].level = 2 /\ outline_items[2].level = 1
  /\ outline_items[3].level = 3 /\ outline_items[4].level = 2
  /\ outline_toc.value[1].parent = 0 /\ outline_toc.value[2].parent = 0
  /\ outline_toc.value[3].parent = 2 /\ outline_toc.value[4].parent = 2

(* ===================== _load_index and _write_index ==================== *)

Loaded(raised, data, parsed) ==
  [op |-> "load", raised |-> raised, data |-> data, parsed |-> parsed]

Written(ok, data) == [op |-> "write", raised |-> ~ok, data |-> data]

\* a call of _load_index(path)
LoadIndex ==
  /\ \E ld \in {_load_index(index_file, index_cache)} :
       /\ index_cache' = ld.cache
       /\ last' = Loaded(ld.raised, ld.data, ld.parsed)
  /\ UNCHANGED <<book, index_file, clock, norm, srch>>

\* a call of _write_index(path, data) with an index of some Book; when the
\* write of the temp file fails the call raises before os.replace
WriteIndex ==
  /\ clock < MaxClock
  /\ \E bk \in IndexBooks, ok \in BOOLEAN :
       LET data == build_index(bk, clock + 1) IN
       /\ last' = Written(ok, data)
       /\ IF ok
          THEN \E w \in {_write_index(data, clock)} :
                 /\ index_file' = w.file
                 /\ index_cache' = w.cache
                 /\ clock' = w.clock
          ELSE UNCHANGED <<index_file, index_cache, clock>>
  /\ UNCHANGED <<book, norm, srch>>

NextCache ==
  \/ LoadIndex
  \/ WriteIndex
  \/ ForeignWrite
  \/ ForeignDelete

\* no index file, an empty _INDEX_CACHE
InitCache ==
  /\ IdleNormaliser
  /\ IdleIndex
  /\ IdleSearch

SpecCache == InitCache /\ [][NextCache]_vars

\* C25: _load_index returns None for a missing file and otherwise, for a
\* file that is JSON, data equal to the file's content, whatever writes of
\* this process, replacements from outside (each with a new modification
\* time), deletions and loads came before; it parses the file exactly when
\* the cache has no entry for the path or the cached modification time is
\* not the file's; after _write_index the cache entry holds the data written
C25_CacheCoherence ==
  [][/\ (LoadIndex /\ ~index_file.exists) =>
          (~last'.raised /\ last'.data = NoData /\ ~last'.parsed)
     /\ (LoadIndex /\ index_file.exists
           /\ index_file.data.form # "malformed") =>
          /\ ~last'.raised
          /\ last'.data = index_file.data
          /\ last'.parsed <=>
               (~index_cache.present \/ index_cache.mtime # index_file.mtime)
     /\ (WriteIndex /\ ~last'.raised) =>
          /\ index_cache'.present
          /\ index_cache'.data = last'.data
          /\ index_file'.data = last'.data
          /\ index_cache'.mtime = index_file'.mtime]_vars

\* after the file was written or replaced twice, a load found the cached
\* modification time out of date, parsed the file and returned its data
C25_Witness ==
  /\ last.op = "load" /\ ~last.raised /\ last.parsed
  /\ index_file.exists /\ index_file.mtime = 2
  /\ last.data = index_file.data
  /\ last.data.form = "index"
  /\ index_cache = CacheEntry(2, index_file.data)

(* ========== ensure_book_index called by two threads at once =========== *)

\* the file holds the whole JSON text of one index document
Complete(content) ==
  /\ content.cells[1].part = 1
  /\ content.cells[2].part = 2
  /\ content.cells[1].doc = content.cells[2].doc

\* the file at the index path, as _load_index finds it
IndexFileAt(dir, nodes) ==
  IF dir["index"] = 0 THEN NoFile
  ELSE LET content == nodes[dir["index"]] IN
       IndexFile(content.mtime,
                 IF Complete(content) THEN content.cells[1].doc ELSE Malformed)

\* index documents found in the book directory when the threads start: the
\* one of the Book, and one of an earlier processing
StoredDocs(bk) ==
  {build_index(bk, 0),
   IndexDoc(INDEX_VERSION, 3 - bk.processed_at, 0, Len(bk.spine), <<>>)}

ThreadReturned(index) == [status |-> "returned", index |-> index, exc |-> "None"]

ThreadRaised(exc) == [status |-> "raised", index |-> NoData, exc |-> exc]

InitConcurrent ==
  /\ IdleNormaliser
  /\ IdleTokens
  /\ IdleSearchBooks
  /\ IdlePositions
  /\ IdleStem
  /\ IdleImages
  /\ IdleOutline
  /\ book \in IndexBooks
  /\ index_file = NoFile
  /\ index_cache = NoCache
  /\ clock = 0
  /\ last = NoCall
  /\ \/ /\ names = [n \in {"index", "tmp"} |-> 0]
        /\ inodes = [n \in Inodes |-> EmptyContent]
     \/ \E d \in StoredDocs(book) :
          /\ names = [n \in {"index", "tmp"} |-> IF n = "index" THEN 1 ELSE 0]
          /\ inodes = [n \in Inodes |->
                         IF n = 1 THEN Content(<<Half(d, 1), Half(d, 2)>>, 0)
                         ELSE EmptyContent]
  /\ tpc = [t \in Threads |-> "start"]
  /\ handle = [t \in Threads |-> 0]
  /\ tindex = [t \in Threads |-> NoData]
  /\ tret = [t \in Threads |-> NoReturn]

\* index = _load_index(index_path); if not _should_rebuild(index, book):
\* return index; otherwise the documents and the index are built
ThreadLoad(t) ==
  /\ tpc[t] = "start"
  /\ LET ld == _load_index(IndexFileAt(names, inodes), index_cache) IN
       /\ index_cache' = ld.cache
       /\ IF ld.raised
          THEN /\ tret' = [tret EXCEPT ![t] = ThreadRaised("JSONDecodeError")]
               /\ tpc' = [tpc EXCEPT ![t] = "raised"]
               /\ UNCHANGED tindex
          ELSE IF ~_should_rebuild(ld.data, book)
          THEN /\ tret' = [tret EXCEPT ![t] = ThreadReturned(ld.data)]
               /\ tpc' = [tpc EXCEPT ![t] = "done"]
               /\ tindex' = [tindex EXCEPT ![t] = ld.data]
          ELSE /\ tindex' = [tindex EXCEPT ![t] = build_index(book, clock + 1)]
               /\ tpc' = [tpc EXCEPT ![t] = "built"]
               /\ UNCHANGED tret
  /\ UNCHANGED <<book, index_file, clock, last, names, inodes, handle, norm,
                 tok, sea, pos, img, otl, stm>>

\* with open(tmp_path, "w"): the file is created, or the file of that name
\* is truncated
ThreadOpen(t) ==
  /\ tpc[t] = "built"
  /\ LET node == IF names["tmp"] = 0 THEN t + 1 ELSE names["tmp"] IN
       /\ names' = [names EXCEPT !["tmp"] = node]
       /\ inodes' = [inodes EXCEPT ![node] =
                       Content(<<NoHalf, NoHalf>>, clock + 1)]
       /\ handle' = [handle EXCEPT ![t] = node]
  /\ clock' = clock + 1
  /\ tpc' = [tpc EXCEPT ![t] = "opened"]
  /\ UNCHANGED <<book, index_file, index_cache, last, tindex, tret, norm, tok,
                 sea, pos, img, otl, stm>>

\* json.dump: the first half of the text reaches the file
ThreadWriteFirst(t) ==
  /\ tpc[t] = "opened"
  /\ inodes' = [inodes EXCEPT ![handle[t]] =
                  Content([@.cells EXCEPT ![1] = Half(tindex[t], 1)], clock + 1)]
  /\ clock' = clock + 1
  /\ tpc' = [tpc EXCEPT ![t] = "half"]
  /\ UNCHANGED <<book, index_file, index_cache, last, names, handle, tindex,
                 tret, norm, tok, sea, pos, img, otl, stm>>

\* json.dump: the second half reaches the file and the file is closed, or
\* the write fails (the disk is full) and OSError leaves the call
ThreadWriteSecond(t) ==
  /\ tpc[t] = "half"
  /\ \E ok \in BOOLEAN :
       IF ok
       THEN /\ inodes' = [inodes EXCEPT ![handle[t]] =
                           Content([@.cells EXCEPT ![2] = Half(tindex[t], 2)],
                                   clock + 1)]
            /\ clock' = clock + 1
            /\ tpc' = [tpc EXCEPT ![t] = "written"]
            /\ UNCHANGED tret
       ELSE /\ tret' = [tret EXCEPT ![t] = ThreadRaised("OSError")]
            /\ tpc' = [tpc EXCEPT ![t] = "raised"]
            /\ UNCHANGED <<inodes, clock>>
  /\ UNCHANGED <<book, index_file, index_cache, last, names, handle, tindex,
                 norm, tok, sea, pos, img, otl, stm>>

\* os.replace(tmp_path, path)
ThreadReplace(t) ==
  /\ tpc[t] = "written"
  /\ IF names["tmp"] = 0
     THEN /\ tret' = [tret EXCEPT ![t] = ThreadRaised("FileNotFoundError")]
          /\ tpc' = [tpc EXCEPT ![t] = "raised"]
          /\ UNCHANGED names
     ELSE /\ names' = [n \in {"index", "tmp"} |->
                         IF n = "index" THEN names["tmp"] ELSE 0]
          /\ tpc' = [tpc EXCEPT ![t] = "replaced"]
          /\ UNCHANGED tret
  /\ UNCHANGED <<book, index_file, index_cache, clock, last, inodes, handle,
                 tindex, norm, tok, sea, pos, img, otl, stm>>

\* _INDEX_CACHE[path] = {"mtime": os.path.getmtime(path), "data": data},
\* and ensure_book_index returns the index
ThreadCache(t) ==
  /\ tpc[t] = "replaced"
  /\ index_cache' = CacheEntry(inodes[names["index"]].mtime, tindex[t])
  /\ tret' = [tret EXCEPT ![t] = ThreadReturned(tindex[t])]
  /\ tpc' = [tpc EXCEPT ![t] = "done"]
  /\ UNCHANGED <<book, index_file, clock, last, names, inodes, handle, tindex,
                 norm, tok, sea, pos, img, otl, stm>>

NextConcurrent ==
  \/ \E t \in Threads : ThreadLoad(t)
  \/ \E t \in Threads : ThreadOpen(t)
  \/ \E t \in Threads : ThreadWriteFirst(t)
  \/ \E t \in Threads : ThreadWriteSecond(t)
  \/ \E t \in Threads : ThreadReplace(t)
  \/ \E t \in Threads : ThreadCache(t)

SpecConcurrent == InitConcurrent /\ [][NextConcurrent]_vars

\* the file at the index path is absent or one complete index document
IndexFileWhole ==
  names["index"] # 0 => Complete(inodes[names["index"]])

\* a call that raised did so because its own write failed
OnlyWriteFailuresRaise ==
  \A t \in Threads : tret[t].status = "raised" => tret[t].exc = "OSError"

\* C24: at every moment the file at the index path is absent or one complete
\* index document, also when a write fails midway and when two calls for the
\* same book directory run at once, and then both calls return a complete
\* index without raising
C24_IndexFileAlwaysWhole ==
  /\ IndexFileWhole
  /\ OnlyWriteFailuresRaise
  /\ \A t \in Threads : tret[t].status = "returned" => tret[t].index.form = "index"

\* the same while only one thread has called ensure_book_index
C24_OneThreadIsAtomic ==
  (\E t \in Threads : tpc[t] = "start") => C24_IndexFileAlwaysWhole

(* ================== process_epub: the extraction of images ============= *)

\* longest item name
MaxName == 2

\* characters of item names: an ASCII letter and digit, '.', the path
\* separator, a space, '#', a non-ASCII letter (e with acute accent) and a
\* non-ASCII digit (ARABIC-INDIC DIGIT THREE)
NameChars == {"a", "1", ".", "/", " ", "#", "U+00E9", "U+0663"}

\* [A-Za-z0-9._-] over those characters
AsciiSafeChars == {"a", "1", "."}

\* str.isalpha()
isalpha(c) == c \in {"a", "U+00E9"}

\* str.isdigit() of one character
isdigit_char(c) == c \in {"1", "U+0663"}

\* item.get_name(): a non-empty archive path
ItemNames == SeqsUpTo(NameChars, MaxName) \ {<<>>}

EpubItem_(type, name) == [type |-> type, name |-> name]

\* book.get_items(): one item of any name, alone or after a plain image
EpubItemLists ==
  {<<>>}
  \cup {<<EpubItem_(t, n)>> : t \in {"image", "document"}, n \in ItemNames}
  \cup {<<EpubItem_("image", <<"a">>), EpubItem_(t, n)>> :
          t \in {"image", "document"}, n \in ItemNames}

RECURSIVE basename(_)
\* os.path.basename: what follows the last '/'
basename(name) ==
  IF \E k \in 1..Len(name) : name[k] = "/"
  THEN basename(Tail(name))
  ELSE name

\* [c for c in original_fname if c.isalpha() or c.isdigit() or c in '._-']
safe_filter(fname) ==
  SelectSeq(fname, LAMBDA c : isalpha(c) \/ isdigit_char(c)
                              \/ c \in {".", "_", "-"})

RECURSIVE strip(_)
\* str.strip(): white space removed at both ends
strip(value) ==
  IF value = <<>> THEN value
  ELSE IF Head(value) = " " THEN strip(Tail(value))
  ELSE IF value[Len(value)] = " " THEN strip(SubSeq(value, 1, Len(value) - 1))
  ELSE value

safe_fname_of(original_fname) == strip(safe_filter(original_fname))

\* f"images/{safe_fname}"
rel_path_of(safe_fname) == <<"i", "m", "a", "g", "e", "s", "/">> \o safe_fname

\* d[key] = value
dict_set(d, key, value) == {e \in d : e[1] # key} \cup {<<key, value>>}

RECURSIVE extract_images(_, _, _)
\* the loop over book.get_items(): the files of images/ and image_map
extract_images(items, files, map) ==
  IF items = <<>>
  THEN [status |-> "done", files |-> files, image_map |-> map]
  ELSE LET item == Head(items) IN
       IF item.type # "image" THEN extract_images(Tail(items), files, map)
       ELSE LET original_fname == basename(item.name)
                safe_fname == safe_fname_of(original_fname)
                rel_path == rel_path_of(safe_fname)
            IN IF safe_fname = <<>>
               \* open() of the directory images/ itself: IsADirectoryError
               THEN [status |-> "raised", files |-> files, image_map |-> map]
               ELSE extract_images(Tail(items), files \cup {safe_fname},
                      dict_set(dict_set(map, item.name, rel_path),
                               original_fname, rel_path))

InitImages ==
  /\ IdleNormaliser
  /\ IdleIndex
  /\ IdleTokens
  /\ IdleSearchBooks
  /\ IdlePositions
  /\ IdleStem
  /\ IdleConcurrent
  /\ IdleOutline
  /\ epub_items \in EpubItemLists
  /\ extracted = NotExtracted

ExtractImages ==
  /\ extracted = NotExtracted
  /\ extracted' = extract_images(epub_items, {}, {})
  /\ UNCHANGED <<norm, idx, tok, sea, pos, con, otl, stm, epub_items>>

NextImages == ExtractImages

SpecImages == InitImages /\ [][NextImages]_vars

OnlyAsciiSafe(fname) == \A k \in 1..Len(fname) : fname[k] \in AsciiSafeChars

\* the image item is written under a name of [A-Za-z0-9._-] alone, and
\* image_map holds images/<that name> under the item's path and its basename
ImageExtracted(item) ==
  \E fname \in extracted.files :
    /\ OnlyAsciiSafe(fname)
    /\ <<item.name, rel_path_of(fname)>> \in extracted.image_map
    /\ <<basename(item.name), rel_path_of(fname)>> \in extracted.image_map

ImagesContract ==
  /\ extracted.status = "done"
  /\ \A fname \in extracted.files : OnlyAsciiSafe(fname)
  /\ \A k \in 1..Len(epub_items) :
       epub_items[k].type = "image" => ImageExtracted(epub_items[k])

\* C22: for every image item of an EPUB, whatever its basename holds, the
\* file written under images/ and the value in the images map have a file
\* name of characters of [A-Za-z0-9._-] alone, and the map holds that value
\* under the item's full archive path and under its basename
C22_ImageNamesAreAsciiSafe ==
  extracted.status # "none" => ImagesContract

\* the same for the items whose basename holds ASCII letters, digits and
\* dots only
C22_AsciiNamesAreKept ==
  (/\ extracted.status # "none"
   /\ \A k \in 1..Len(epub_items) :
        /\ basename(epub_items[k].name) # <<>>
        /\ OnlyAsciiSafe(basename(epub_items[k].name))) => ImagesContract

====
